---- MODULE Spec2Model ----
(***************************************************************************)
(* Model of the fractional Fourier transform engine of                     *)
(* src/src/analysis/FractionalFFT.js.                                      *)
(*                                                                         *)
(* Numbers.  The engine computes with IEEE doubles.  The model computes    *)
(* with exact real numbers of the field Q(r), r = 2^(1/4) (so r*r = sqrt 2)*)
(* with dyadic denominators: a number is <<c0, c1, c2, c3, e>>, standing   *)
(* for (c0 + c1*r + c2*r^2 + c3*r^3) / 2^e.  Every twiddle factor of an    *)
(* FFT of length 1, 2, 4 or 8, every chirp factor of the orders k/2 on     *)
(* lengths 1, 2 and 4, and the normalisation sqrt(|csc(phi)|/N) of these   *)
(* orders lie in this field.  A number the field does not hold (cos(pi/8), *)
(* 1/3, a quotient by the 1e-10 guard) is the one value Inexact, which     *)
(* every operation propagates: "some double this model does not track".    *)
(* Rounding errors of the doubles (cos(pi/2) = 6e-17, x + 1e-10 for x of   *)
(* size 1) are below the tolerances the properties are stated with and are *)
(* not modelled: equality of exact values stands for "equal within         *)
(* tolerance".                                                             *)
(***************************************************************************)
EXTENDS Integers, Sequences, FiniteSets, TLC

\* ------------------------------------------------------------------ bounds
\* longest input signal
MaxLen == 3
\* longest second array of a two-signal call
MaxLen2 == 2
\* largest order passed, in absolute value
MaxOrder == 2

\* ------------------------------------------------------------------ evaluation
\* F applied to the value of v: v is evaluated once and F reads the value
\* (a name bound by LET or an operator parameter is evaluated again at each
\* use).
Bind(v, F(_)) == CHOOSE r \in {F(x) : x \in {v}} : TRUE
Bind2(v, w, F(_, _)) == CHOOSE r \in {F(x, y) : x \in {v}, y \in {w}} : TRUE
\* An array: the function f on 1..n as a sequence, every element evaluated.
Array(f) == f \o <<>>

\* ------------------------------------------------------------------ numbers
Inexact == <<0, 0, 0, 0, -1>>
IsExact(x) == x[5] >= 0

Powers == <<1, 2, 4, 8, 16, 32, 64, 128, 256, 512, 1024, 2048, 4096, 8192,
            16384, 32768, 65536, 131072, 262144, 524288, 1048576>>
Pow2(n) == Powers[n + 1]
IsPow2(n) == \E k \in 1..Len(Powers) : Powers[k] = n
Log2(n) == (CHOOSE k \in 1..Len(Powers) : Powers[k] = n) - 1
Abs(n) == IF n < 0 THEN -n ELSE n

\* lowest terms: the smallest denominator 2^e
Reduce(x0) ==
    Bind(x0, LAMBDA x :
        IF x[5] <= 0 THEN x
        ELSE LET divides(k) == \A i \in 1..4 : x[i] % Pow2(k) = 0
                 k == CHOOSE j \in 0..x[5] : divides(j) /\ (j = x[5] \/ ~divides(j + 1))
                 m == Pow2(k)
             IN <<x[1] \div m, x[2] \div m, x[3] \div m, x[4] \div m, x[5] - k>>)

RInt(n) == <<n, 0, 0, 0, 0>>
RZero == <<0, 0, 0, 0, 0>>
ROne == <<1, 0, 0, 0, 0>>

\* x with denominator 2^e, e >= x[5]
Scaled(x, e) ==
    LET m == Pow2(e - x[5]) IN <<x[1] * m, x[2] * m, x[3] * m, x[4] * m, e>>

RAdd(a0, b0) ==
    Bind2(a0, b0, LAMBDA a, b :
        IF ~IsExact(a) \/ ~IsExact(b) THEN Inexact
        ELSE IF b = RZero THEN a
        ELSE IF a = RZero THEN b
        ELSE IF a[5] = b[5]
             THEN Reduce(<<a[1] + b[1], a[2] + b[2], a[3] + b[3], a[4] + b[4], a[5]>>)
        ELSE IF a[5] > b[5]
             THEN Bind(Scaled(b, a[5]), LAMBDA y :
                      Reduce(<<a[1] + y[1], a[2] + y[2], a[3] + y[3], a[4] + y[4], a[5]>>))
        ELSE Bind(Scaled(a, b[5]), LAMBDA x :
                      Reduce(<<x[1] + b[1], x[2] + b[2], x[3] + b[3], x[4] + b[4], b[5]>>)))

RNeg(a0) ==
    Bind(a0, LAMBDA a :
        IF ~IsExact(a) THEN Inexact ELSE <<-a[1], -a[2], -a[3], -a[4], a[5]>>)

RSub(a, b) == RAdd(a, RNeg(b))

\* the product, with r^4 = 2
RMul(a0, b0) ==
    Bind2(a0, b0, LAMBDA a, b :
        IF ~IsExact(a) \/ ~IsExact(b) THEN Inexact
        ELSE IF a = RZero \/ b = RZero THEN RZero
        ELSE IF a = ROne THEN b
        ELSE IF b = ROne THEN a
        ELSE Reduce(<<a[1]*b[1] + 2 * (a[2]*b[4] + a[3]*b[3] + a[4]*b[2]),
                      a[1]*b[2] + a[2]*b[1] + 2 * (a[3]*b[4] + a[4]*b[3]),
                      a[1]*b[3] + a[2]*b[2] + a[3]*b[1] + 2 * a[4]*b[4],
                      a[1]*b[4] + a[2]*b[3] + a[3]*b[2] + a[4]*b[1],
                      a[5] + b[5]>>))

\* 2^(v/4) for an integer v: the monomials of the field
Pow4(v0) ==
    Bind(v0, LAMBDA v :
        LET k == v % 4
            w == (v - k) \div 4
            c == IF w >= 0 THEN Pow2(w) ELSE 1
            e == IF w >= 0 THEN 0 ELSE -w
        IN <<IF k = 0 THEN c ELSE 0, IF k = 1 THEN c ELSE 0,
             IF k = 2 THEN c ELSE 0, IF k = 3 THEN c ELSE 0, e>>)

\* x = +-2^(v/4) for some integer v
IsMonomial(x) ==
    /\ IsExact(x)
    /\ \E i \in 1..4 : /\ IsPow2(Abs(x[i]))
                       /\ \A j \in 1..4 : j # i => x[j] = 0

MonoIdx(x) == CHOOSE i \in 1..4 : x[i] # 0
\* the v of a monomial +-2^(v/4)
MonoExp(x) == 4 * (Log2(Abs(x[MonoIdx(x)])) - x[5]) + (MonoIdx(x) - 1)
MonoSign(x) == IF x[MonoIdx(x)] < 0 THEN -1 ELSE 1

\* a / b: exact when b is a monomial (+-1, +-2^k, +-sqrt(2)/2, ...)
RDiv(a0, b0) ==
    Bind2(a0, b0, LAMBDA a, b :
        IF ~IsExact(a) \/ ~IsMonomial(b) THEN Inexact
        ELSE IF MonoSign(b) < 0 THEN RMul(a, RNeg(Pow4(-MonoExp(b))))
        ELSE RMul(a, Pow4(-MonoExp(b))))

\* Math.abs
MathAbs(x0) ==
    Bind(x0, LAMBDA x :
        IF ~IsExact(x) THEN Inexact
        ELSE IF \A i \in 1..4 : x[i] >= 0 THEN x
        ELSE IF \A i \in 1..4 : x[i] <= 0 THEN RNeg(x)
        ELSE Inexact)

\* Math.sqrt: exact on 0 and on the monomials 2^(v/4) with v even
MathSqrt(x0) ==
    Bind(x0, LAMBDA x :
        IF x = RZero THEN RZero
        ELSE IF IsMonomial(x) /\ MonoSign(x) > 0 /\ MonoExp(x) % 2 = 0
             THEN Pow4(MonoExp(x) \div 2)
        ELSE Inexact)

\* cos(m*pi/4) and sin(m*pi/4), m in 0..7
CosTable == <<<<1, 0, 0, 0, 0>>, <<0, 0, 1, 0, 1>>, <<0, 0, 0, 0, 0>>, <<0, 0, -1, 0, 1>>,
              <<-1, 0, 0, 0, 0>>, <<0, 0, -1, 0, 1>>, <<0, 0, 0, 0, 0>>, <<0, 0, 1, 0, 1>>>>
SinTable == <<<<0, 0, 0, 0, 0>>, <<0, 0, 1, 0, 1>>, <<1, 0, 0, 0, 0>>, <<0, 0, 1, 0, 1>>,
              <<0, 0, 0, 0, 0>>, <<0, 0, -1, 0, 1>>, <<-1, 0, 0, 0, 0>>, <<0, 0, -1, 0, 1>>>>

\* An angle is held as its coefficient t of pi (the angle is t*pi).
\* t is a multiple of 1/4
IsOctant(t) == IsExact(t) /\ t[2] = 0 /\ t[3] = 0 /\ t[4] = 0 /\ t[5] <= 2
Octant(t) == (t[1] * Pow2(2 - t[5])) % 8

\* Math.cos(t * Math.PI), Math.sin(t * Math.PI)
MathCos(t0) == Bind(t0, LAMBDA t : IF IsOctant(t) THEN CosTable[Octant(t) + 1] ELSE Inexact)
MathSin(t0) == Bind(t0, LAMBDA t : IF IsOctant(t) THEN SinTable[Octant(t) + 1] ELSE Inexact)

\* ------------------------------------------------------------------ complex
Cx(re, im) == [re |-> RInt(re), im |-> RInt(im)]
CZero == [re |-> RZero, im |-> RZero]

complexMultiply(a0, b0) ==
    Bind2(a0, b0, LAMBDA a, b :
        [re |-> RSub(RMul(a.re, b.re), RMul(a.im, b.im)),
         im |-> RAdd(RMul(a.re, b.im), RMul(a.im, b.re))])

complexAdd(a0, b0) ==
    Bind2(a0, b0, LAMBDA a, b : [re |-> RAdd(a.re, b.re), im |-> RAdd(a.im, b.im)])

complexSubtract(a0, b0) ==
    Bind2(a0, b0, LAMBDA a, b : [re |-> RSub(a.re, b.re), im |-> RSub(a.im, b.im)])

\* ------------------------------------------------------------------ results
\* What a call gives back: an array (value) or a thrown error.
Return(v) == [threw |-> FALSE, error |-> "", value |-> v]
Throw(msg) == [threw |-> TRUE, error |-> msg, value |-> <<>>]

\* new Array(n).fill({re: 0, im: 0})
Zeros(n) == Array([i \in 1..n |-> CZero])

\* ------------------------------------------------------------------ utilities
\* Math.pow(2, Math.ceil(Math.log2(n))), n >= 1
nextPowerOfTwo(n) == Powers[CHOOSE k \in 1..Len(Powers) : Powers[k] >= n /\ (k = 1 \/ Powers[k - 1] < n)]

padToPowerOfTwo(signal0) ==
    Bind(signal0, LAMBDA signal :
        LET nextPow2 == nextPowerOfTwo(Len(signal))
        IN IF Len(signal) = nextPow2 THEN signal
           ELSE signal \o Zeros(nextPow2 - Len(signal)))

\* ------------------------------------------------------------------ standard FFT
\* the samples at the even (parity 0) or odd (parity 1) indices, counted from 0
Filter(signal, parity) ==
    Array([j \in 1..((Len(signal) + 1 - parity) \div 2) |-> signal[2 * j - 1 + parity]])

\* the twiddle factor exp(-2*pi*i*k/N)
Twiddle(k, N) ==
    Bind(RDiv(RInt(-2 * k), RInt(N)), LAMBDA t : [re |-> MathCos(t), im |-> MathSin(t)])

\* the combine loop of cooleyTukeyFFT
Combine(evenFFT, oddFFT, N) ==
    Bind(Array([k \in 1..(N \div 2) |-> complexMultiply(Twiddle(k - 1, N), oddFFT[k])]),
         LAMBDA oddTerm :
            Array([i \in 1..N |->
                IF i <= N \div 2 THEN complexAdd(evenFFT[i], oddTerm[i])
                ELSE complexSubtract(evenFFT[i - N \div 2], oddTerm[i - N \div 2])]))

RECURSIVE cooleyTukeyFFT(_)
cooleyTukeyFFT(signal0) ==
    Bind(signal0, LAMBDA signal :
        IF Len(signal) <= 1 THEN signal
        ELSE Bind2(cooleyTukeyFFT(Filter(signal, 0)), cooleyTukeyFFT(Filter(signal, 1)),
                   LAMBDA evenFFT, oddFFT : Combine(evenFFT, oddFFT, Len(signal))))

standardFFT(signal0) ==
    Bind(signal0, LAMBDA signal :
        IF Len(signal) <= 1 THEN signal
        ELSE cooleyTukeyFFT(padToPowerOfTwo(signal)))

standardIFFT(signal0) ==
    Bind(signal0, LAMBDA signal :
        Bind(standardFFT(Array([i \in 1..Len(signal) |->
                                  [re |-> signal[i].re, im |-> RNeg(signal[i].im)]])),
             LAMBDA fftResult :
                Array([i \in 1..Len(fftResult) |->
                         [re |-> RDiv(fftResult[i].re, RInt(Len(signal))),
                          im |-> RDiv(RNeg(fftResult[i].im), RInt(Len(signal)))]])))

\* ------------------------------------------------------------------ convolution
\* padded to nextPowerOfTwo(N) only: the convolution wraps around
fastConvolutionCircular(signal01, signal02) ==
    Bind2(signal01, signal02, LAMBDA signal1, signal2 :
        LET N == Len(signal1)
            paddedLength == nextPowerOfTwo(N)
        IN IF N = 0 THEN Throw("RangeError: Invalid array length")
           ELSE Bind2(standardFFT(signal1 \o Zeros(paddedLength - N)),
                      standardFFT(signal2 \o Zeros(paddedLength - N)),
                      LAMBDA fft1, fft2 :
                        IF Len(fft2) < Len(fft1)
                        THEN Throw("TypeError: Cannot read properties of undefined")
                        ELSE Bind(standardIFFT(Array([i \in 1..Len(fft1) |->
                                                  complexMultiply(fft1[i], fft2[i])])),
                                  LAMBDA result : Return(SubSeq(result, 1, N)))))

fastConvolution(signal01, signal02) ==
    Bind2(signal01, signal02, LAMBDA signal1, signal2 :
        LET N == Len(signal1)
            paddedLength == nextPowerOfTwo(2 * N - 1)
        IN \* N = 0: Math.log2(-1) is NaN and new Array(NaN) throws
           IF N = 0 THEN Throw("RangeError: Invalid array length")
           ELSE Bind2(standardFFT(signal1 \o Zeros(paddedLength - N)),
                      standardFFT(signal2 \o Zeros(paddedLength - N)),
                      LAMBDA fft1, fft2 :
                        \* fft2[i] is undefined past the end of fft2
                        IF Len(fft2) < Len(fft1)
                        THEN Throw("TypeError: Cannot read properties of undefined")
                        ELSE Bind(standardIFFT(Array([i \in 1..Len(fft1) |->
                                                  complexMultiply(fft1[i], fft2[i])])),
                                  LAMBDA result :
                                    Return(SubSeq(result, 1,
                                                  IF N <= Len(result) THEN N ELSE Len(result))))))

\* ------------------------------------------------------------------ orders
\* An order alpha is q/4 + d*Delta: q quarters, and d in {-1, 0, 1} times a
\* fixed Delta = 2^-37 (7.3e-12), smaller than the engine's epsilon = 1e-10.
\* On these orders the double arithmetic of normalizeAlpha is exact.
Order(q, d) == [q |-> q, d |-> d]
Negated(alpha) == Order(-alpha.q, -alpha.d)
Plus(alpha, k) == Order(alpha.q + 4 * k, alpha.d)
IsNegative(alpha) == alpha.q < 0 \/ (alpha.q = 0 /\ alpha.d < 0)

\* JavaScript's alpha % 4 (the sign of the result is the sign of alpha);
\* Order(16, -1) is 4 - Delta
Rem4(alpha0) ==
    Bind(alpha0, LAMBDA alpha :
        LET pos(a) == IF a.d < 0 /\ a.q % 16 = 0 THEN Order(16, a.d) ELSE Order(a.q % 16, a.d)
        IN IF IsNegative(alpha) THEN Negated(pos(Negated(alpha))) ELSE pos(alpha))

\* (alpha % 4) + 4: the final % 4 left out
normalizeAlphaNoWrap(alpha) == Plus(Rem4(alpha), 4)

\* alpha % 4: a negative order stays negative
normalizeAlphaSigned(alpha) == Rem4(alpha)

normalizeAlpha(alpha) == Rem4(Plus(Rem4(alpha), 4))

\* Math.abs(alpha - k) < this.epsilon, k an integer
Near(alpha, k) == alpha.q = 4 * k

\* phi = alpha * Math.PI / 2, as a coefficient of pi
PhiOf(alpha) == IF alpha.d = 0 THEN Reduce(<<alpha.q, 0, 0, 0, 3>>) ELSE Inexact

\* x + this.epsilon: x within the tolerance when x is not 0, and the
\* untracked 1e-10 when it is
PlusEpsilon(x0) == Bind(x0, LAMBDA x : IF x = RZero THEN Inexact ELSE x)

\* ------------------------------------------------------------------ fractional FFT
\* the chirp factor exp(i*pi*c*cotPhi/N), c = +-n^2
Chirp(c, cotPhi, N) ==
    Bind(RDiv(RMul(RInt(c), cotPhi), RInt(N)),
         LAMBDA expArg : [re |-> MathCos(expArg), im |-> MathSin(expArg)])

chirpConvolution(signal, phi, N) ==
    Bind(RDiv(MathCos(phi), MathSin(phi)), LAMBDA cotPhi :
        fastConvolution(signal, Array([k \in 1..N |-> Chirp((k - 1) * (k - 1), cotPhi, N)])))

computeFractionalFFT(signal0, alpha) ==
    Bind2(signal0, PhiOf(alpha), LAMBDA signal, phi :
      Bind2(RDiv(MathCos(phi), PlusEpsilon(MathSin(phi))),
            RDiv(ROne, PlusEpsilon(MathSin(phi))),
            LAMBDA cotPhi, cscPhi :
        LET N == Len(signal) IN
        Bind2(chirpConvolution(Array([n \in 1..N |->
                                  complexMultiply(signal[n],
                                                  Chirp(-((n - 1) * (n - 1)), cotPhi, N))]),
                               phi, N).value,
              MathSqrt(RDiv(MathAbs(cscPhi), RInt(N))),
              LAMBDA convolved, normFactor :
                Array([n \in 1..N |->
                    Bind(complexMultiply(convolved[n], Chirp((n - 1) * (n - 1), cotPhi, N)),
                         LAMBDA multiplied :
                            [re |-> RMul(multiplied.re, normFactor),
                             im |-> RMul(multiplied.im, normFactor)])]))))

\* signal.reverse(), without the copy: the argument array is reversed too
reverseSignalInPlace(signal0) ==
    Bind(signal0, LAMBDA signal :
        Bind(Array([i \in 1..Len(signal) |-> signal[Len(signal) + 1 - i]]), LAMBDA rev :
            [ret |-> rev, arg |-> rev]))

\* [...signal] alone: the copy is returned as it is
reverseSignalCopyOnly(signal0) ==
    Bind(signal0, LAMBDA signal : [ret |-> signal, arg |-> signal])

\* [...signal].reverse(): ret is the array returned, arg the argument array
\* as the call leaves it
reverseSignal(signal0) ==
    Bind(signal0, LAMBDA signal :
        [ret |-> Array([i \in 1..Len(signal) |-> signal[Len(signal) + 1 - i]]), arg |-> signal])

\* ------------------------------------------------------------------ transform
\* An argument of a call: an array, null or undefined.
Arr(elems) == [tag |-> "array", elems |-> elems]
Null == [tag |-> "null", elems |-> <<>>]
Undefined == [tag |-> "undefined", elems |-> <<>>]
NoOrder == Order(-1, 0)

\* What transform did: threw/error/value as for every call; normalized is the
\* order after line 41 (NoOrder when line 41 was not reached); path is the
\* branch that produced the value; arg is the argument array after the call.
Outcome(res0, normalized, path, arg) ==
    Bind(res0, LAMBDA res :
        [threw |-> res.threw, error |-> res.error, value |-> res.value,
         normalized |-> normalized, path |-> path, arg |-> arg])

\* the branches of transform after the input check
Dispatch(signal, alpha) ==
    Bind(normalizeAlpha(alpha), LAMBDA a :
        IF Near(a, 0) THEN Outcome(Return(signal.elems), a, "identity", signal)
        ELSE IF Near(a, 1)
             THEN Outcome(Return(standardFFT(signal.elems)), a, "standardFFT", signal)
        ELSE IF Near(a, 2)
             THEN Bind(reverseSignal(signal.elems), LAMBDA rev :
                      Outcome(Return(rev.ret), a, "reverseSignal", Arr(rev.arg)))
        ELSE Outcome(Return(computeFractionalFFT(signal.elems, a)), a,
                     "computeFractionalFFT", signal))

\* if (!signal) only: the length test left out
transformNoLengthCheck(signal0, alpha) ==
    Bind(signal0, LAMBDA signal :
        IF signal.tag # "array"
        THEN Outcome(Throw("Invalid signal input"), NoOrder, "none", signal)
        ELSE Dispatch(signal, alpha))

transform(signal0, alpha) ==
    Bind(signal0, LAMBDA signal :
        IF signal.tag # "array" \/ Len(signal.elems) = 0
        THEN Outcome(Throw("Invalid signal input"), NoOrder, "none", signal)
        ELSE Dispatch(signal, alpha))

inverse(transformedSignal, alpha) == transform(transformedSignal, Negated(alpha))

\* ------------------------------------------------------------------ correlation
\* the sum over n of signal1[n] * conj(signal2[n + lag]), n + lag < N
RECURSIVE LagSum(_, _, _, _, _)
LagSum(signal1, signal2, N, lag, n) ==
    IF n >= N - lag THEN CZero
    ELSE complexAdd(LagSum(signal1, signal2, N, lag, n + 1),
                    complexMultiply(signal1[n + 1],
                                    [re |-> signal2[n + lag + 1].re,
                                     im |-> RNeg(signal2[n + lag + 1].im)]))

\* the products taken without the conjugate
crossCorrelationNoConjugate(signal01, signal02) ==
    Bind2(signal01, signal02, LAMBDA signal1, signal2 :
        LET N == IF Len(signal1) <= Len(signal2) THEN Len(signal1) ELSE Len(signal2)
        IN Array([l \in 1..N |->
                    LagSum(signal1,
                           Array([i \in 1..Len(signal2) |->
                                    [re |-> signal2[i].re, im |-> RNeg(signal2[i].im)]]),
                           N, l - 1, 0)]))

crossCorrelation(signal01, signal02) ==
    Bind2(signal01, signal02, LAMBDA signal1, signal2 :
        LET N == IF Len(signal1) <= Len(signal2) THEN Len(signal1) ELSE Len(signal2)
        IN Array([l \in 1..N |-> LagSum(signal1, signal2, N, l - 1, 0)]))

\* ------------------------------------------------------------------ the engine
maxSamples == 2048

\* new FractionalFFT()
constructor ==
    [epsilon |-> "1e-10",
     maxSamples |-> maxSamples,
     chirpKernels |-> {},
     analysisOrders |-> [temporal |-> Order(1, 0), semantic |-> Order(2, 0),
                         structural |-> Order(3, 0), emergent |-> Order(4, 0),
                         hyperstitious |-> Order(6, 0)]]

\* ------------------------------------------------------------------ inputs
Samples == {Cx(0, 0), Cx(1, 0), Cx(0, 1)}
Signals(maxLen) == UNION {[1..n -> Samples] : n \in 0..maxLen}
\* what a caller may pass as the signal
Args == {Null, Undefined} \cup {Arr(x) : x \in Signals(MaxLen)}
\* the second array of a two-signal call
Seconds == Signals(MaxLen2)
\* the orders a caller passes: the half orders k/2, the quarter orders 0.25
\* and 0.75, and the even orders +- Delta
Orders ==
    {Order(q, 0) : q \in {k \in (-4 * MaxOrder)..(4 * MaxOrder) : k % 2 = 0 \/ k \in {1, 3}}}
    \cup {Order(q, d) : q \in {k \in (-4 * MaxOrder)..(4 * MaxOrder) : k % 8 = 0}, d \in {-1, 1}}

\* ------------------------------------------------------------------ numbers
\* Outside the transform engine the model holds a double as
\* a fraction of integers in lowest terms, or as NaN, Infinity or -Infinity.
RECURSIVE GCD(_, _)
GCD(a, b) == IF b = 0 THEN a ELSE GCD(b, a % b)

Number(num, den) == [kind |-> "number", num |-> num, den |-> den]
NaN == [kind |-> "NaN", num |-> 0, den |-> 0]
Infinity == [kind |-> "Infinity", num |-> 1, den |-> 0]
MinusInfinity == [kind |-> "-Infinity", num |-> -1, den |-> 0]
\* a finite double the model does not hold exactly (a logarithm, a root)
SomeFinite == [kind |-> "finite", num |-> 0, den |-> 0]
IsFinite(x) == x.kind \in {"number", "finite"}

\* n / d for integers n and d
Quotient(n, d) ==
    IF d = 0 THEN IF n = 0 THEN NaN ELSE IF n > 0 THEN Infinity ELSE MinusInfinity
    ELSE LET g == GCD(Abs(n), Abs(d))
             sgn == IF d < 0 THEN -1 ELSE 1
         IN Number(sgn * (n \div g), sgn * (d \div g))

\* x + y
NumberAdd(x, y) ==
    IF x.kind = "NaN" \/ y.kind = "NaN" THEN NaN
    ELSE IF ~IsFinite(x) THEN IF IsFinite(y) \/ y = x THEN x ELSE NaN
    ELSE IF ~IsFinite(y) THEN y
    ELSE Quotient(x.num * y.den + y.num * x.den, x.den * y.den)

\* ------------------------------------------------------------------ event system
\* src/core/EventSystem.js.  A Map is a function on its keys, an array a
\* sequence.  Time stamps (Date.now, performance.now) are left out of the
\* subscriptions and events, where no routine reads them back; the ids
\* "sub_<time>_<random>" and "evt_<time>_<random>" are the count of ids issued.
MaxSubs == 3
MaxEvents == 1

\* map.get(key) || fallback
GetOr(map, key, fallback) == IF key \in DOMAIN map THEN map[key] ELSE fallback
\* map.set(key, value)
Put(map, key, value) ==
    [k \in DOMAIN map \cup {key} |-> IF k = key THEN value ELSE map[k]]

initializeSemanticRoutes ==
    [eventType \in {"voxel.created", "flower.grown", "tmux.parsed",
                    "physics.collision", "analysis.complete", "user.interaction"} |->
        CASE eventType = "voxel.created" -> <<"growth", "visual", "physics">>
          [] eventType = "flower.grown" -> <<"narrative", "visual", "semantic">>
          [] eventType = "tmux.parsed" -> <<"narrative", "data", "temporal">>
          [] eventType = "physics.collision" -> <<"physics", "interaction", "feedback">>
          [] eventType = "analysis.complete" -> <<"semantic", "hyperstitious", "temporal">>
          [] eventType = "user.interaction" -> <<"interface", "control", "narrative">>]

\* new CircularBuffer(size): the slots written so far, by index from 0
CircularBuffer(size) == [buffer |-> <<>>, size |-> size, head |-> 0, count |-> 0]

\* CircularBuffer.add(item)
add(ring, item) ==
    [buffer |-> Put(ring.buffer, ring.head, item),
     size |-> ring.size,
     head |-> (ring.head + 1) % ring.size,
     count |-> IF ring.count < ring.size THEN ring.count + 1 ELSE ring.count]

\* the slots read from index 0 whatever the count
getAllFromZero(ring) ==
    IF ring.count = 0 THEN <<>>
    ELSE Array([i \in 1..ring.count |-> ring.buffer[(i - 1) % ring.size]])

\* CircularBuffer.getAll()
getAll(ring) ==
    IF ring.count = 0 THEN <<>>
    ELSE LET index == IF ring.count < ring.size THEN 0 ELSE ring.head
         IN Array([i \in 1..ring.count |-> ring.buffer[(index + i - 1) % ring.size]])

\* this.eventHistory.size(): the constructor stores the number size on the
\* instance, and that own property is found before the method of the class
size(ring) ==
    IF "size" \in DOMAIN ring
    THEN Throw("TypeError: this.eventHistory.size is not a function")
    ELSE Return(ring.count)

\* new EventSystem()
EventSystem ==
    [listeners |-> <<>>,
     eventBuffer |-> <<>>,
     semanticRouting |-> initializeSemanticRoutes,
     temporalFilters |-> <<>>,
     eventHistory |-> CircularBuffer(1000),
     isProcessing |-> FALSE,
     metrics |-> [eventsProcessed |-> 0, averageProcessingTime |-> Number(0, 1),
                  bufferOverflows |-> 0, routingMisses |-> 0]]

\* The event system with what surrounds it: the timers set by setTimeout
\* (the delayed events, in the order they fire), the number of callbacks
\* handed to requestAnimationFrame and not yet run, the ids issued, and what
\* the handlers were given: one entry per processEventGroup or processEvent
\* call, with the listener list it walked and the listeners whose handler it
\* ran, in the order it ran them.
World(system, pending, waiting, ids, handled) ==
    [es |-> system, timers |-> pending, frames |-> waiting, issued |-> ids,
     delivered |-> handled]

\* A handler: one that records what it is given and returns, or the closure
\* processChainStep subscribes for the step of index step.
Handler(kind, step) == [kind |-> kind, step |-> step]
Recorder == Handler("record", 0)

\* The chain object of createEventChain, held by the closures: steps,
\* currentStep and context, and the contexts onComplete was called with.  A
\* step is its trigger type (emit, "none" without one) and waitFor;
\* updateContext adds to the context the step index and the ids of the events
\* it was given.
NoChain == [created |-> FALSE, steps |-> <<>>, currentStep |-> 0, context |-> <<>>,
            completed |-> <<>>]

\* no getMetrics or getAll call made
NotAsked == [op |-> "none", threw |-> FALSE, error |-> "", value |-> <<>>]

\* subscribe(eventType, handler, semanticDomains, priority); the id it returns
\* is w.issued.sub of the result
subscribeBeforeEqual(w, eventType, handler, semanticDomains, priority) ==
    LET subscription == [id |-> w.issued.sub + 1, handler |-> handler,
                         semanticDomains |-> semanticDomains, priority |-> priority,
                         callCount |-> 0]
        listeners == GetOr(w.es.listeners, eventType, <<>>)
        found == {i \in 1..Len(listeners) : listeners[i].priority <= priority}
        insertIndex == IF found = {} THEN -1
                       ELSE (CHOOSE i \in found : \A j \in found : i <= j) - 1
        placed == IF insertIndex = -1 THEN Append(listeners, subscription)
                  ELSE SubSeq(listeners, 1, insertIndex) \o <<subscription>>
                       \o SubSeq(listeners, insertIndex + 1, Len(listeners))
    IN [w EXCEPT !.es.listeners = Put(@, eventType, placed), !.issued.sub = @ + 1]

subscribe(w, eventType, handler, semanticDomains, priority) ==
    LET subscription == [id |-> w.issued.sub + 1, handler |-> handler,
                         semanticDomains |-> semanticDomains, priority |-> priority,
                         callCount |-> 0]
        listeners == GetOr(w.es.listeners, eventType, <<>>)
        \* listeners.findIndex(sub => sub.priority < priority)
        found == {i \in 1..Len(listeners) : listeners[i].priority < priority}
        insertIndex == IF found = {} THEN -1
                       ELSE (CHOOSE i \in found : \A j \in found : i <= j) - 1
        \* push, or splice(insertIndex, 0, subscription)
        placed == IF insertIndex = -1 THEN Append(listeners, subscription)
                  ELSE SubSeq(listeners, 1, insertIndex) \o <<subscription>>
                       \o SubSeq(listeners, insertIndex + 1, Len(listeners))
    IN [w EXCEPT !.es.listeners = Put(@, eventType, placed), !.issued.sub = @ + 1]

\* unsubscribe(eventType, subscriptionId): the world after, and the value returned
unsubscribe(w, eventType, subscriptionId) ==
    IF eventType \notin DOMAIN w.es.listeners THEN [world |-> w, value |-> FALSE]
    ELSE LET listeners == w.es.listeners[eventType]
             found == {i \in 1..Len(listeners) : listeners[i].id = subscriptionId}
         IN IF found = {} THEN [world |-> w, value |-> FALSE]
            ELSE LET index == CHOOSE i \in found : \A j \in found : i <= j
                     spliced == SubSeq(listeners, 1, index - 1)
                                \o SubSeq(listeners, index + 1, Len(listeners))
                 IN [world |-> [w EXCEPT !.es.listeners[eventType] = spliced],
                     value |-> TRUE]

shouldProcessForListenerNoWildcard(event, listener) ==
    \E i \in 1..Len(listener.semanticDomains) :
        \E j \in 1..Len(event.semantic.domains) :
            listener.semanticDomains[i] = event.semantic.domains[j]

shouldProcessForListener(event, listener) ==
    IF Len(listener.semanticDomains) = 0 THEN TRUE
    ELSE \* listener.semanticDomains.some(domain => eventDomains.includes(domain))
         \E i \in 1..Len(listener.semanticDomains) :
            \E j \in 1..Len(event.semantic.domains) :
                listener.semanticDomains[i] = event.semantic.domains[j]

DefaultOptions == [immediate |-> FALSE, urgency |-> "normal", delay |-> 0]
RECURSIVE emit(_, _, _, _)

\* processChainStep(chain)
processChainStep(w) ==
    IF w.chain.currentStep >= Len(w.chain.steps)
    THEN [w EXCEPT !.chain.completed = Append(@, w.chain.context)]
    ELSE LET step == w.chain.steps[w.chain.currentStep + 1]
             subscribed == subscribe(w, step.waitFor,
                                     Handler("chainStep", w.chain.currentStep), <<>>, 0)
         IN IF step.emit = "none" THEN subscribed
            ELSE emit(subscribed, step.emit,
                      [chainId |-> 1, stepIndex |-> w.chain.currentStep], DefaultOptions)

\* createEventChain(chainSpec)
createEventChain(w, chainSpec) ==
    processChainStep([w EXCEPT !.chain = [created |-> TRUE, steps |-> chainSpec.steps,
                                          currentStep |-> 0, context |-> <<>>,
                                          completed |-> <<>>]])

\* listener.handler(argument), the argument being the events of ids given
runHandler(w, listener, events) ==
    IF listener.handler.kind = "chainStep"
    THEN LET step == w.chain.steps[listener.handler.step + 1]
             updated == [w EXCEPT !.chain.context =
                            Append(@, [step |-> listener.handler.step,
                                       events |-> Array([i \in 1..Len(events) |->
                                                            events[i].id])])]
             removed == unsubscribe(updated, step.waitFor, listener.id).world
         IN processChainStep([removed EXCEPT !.chain.currentStep = @ + 1])
    ELSE w

\* processEventGroup(eventType, events): the for-of loop walks the array of
\* the type by index, the array being the one subscribe and unsubscribe
\* change; a type without an array gives a fresh empty one.  Every listener
\* met is asked whether it takes events[0]; its handler is given the one
\* event or the array of them, and its callCount goes up when the handler
\* returns.
processEventGroup(w, eventType, events) ==
    LET listeners == GetOr(w.es.listeners, eventType, <<>>)
        takes(listener) == shouldProcessForListener(events[1], listener)
        RECURSIVE Walk(_, _, _)
        Walk(v, i, called) ==
            LET live == IF eventType \in DOMAIN w.es.listeners
                        THEN v.es.listeners[eventType] ELSE <<>>
            IN IF i > Len(live)
               THEN [v EXCEPT !.delivered =
                        Append(@, [type |-> eventType,
                                   argument |-> IF Len(events) = 1 THEN events[1]
                                                ELSE events,
                                   events |-> events,
                                   listeners |-> listeners,
                                   called |-> called])]
               ELSE IF ~takes(live[i]) THEN Walk(v, i + 1, called)
               ELSE LET ran == runHandler(v, live[i], events)
                        list == ran.es.listeners[eventType]
                        counted == [ran EXCEPT !.es.listeners[eventType] =
                                       [k \in 1..Len(list) |->
                                           IF list[k].id = live[i].id
                                           THEN [list[k] EXCEPT !.callCount = @ + 1]
                                           ELSE list[k]]]
                    IN Walk(counted, i + 1, Append(called, live[i]))
    IN Walk(w, 1, <<>>)

\* processEvent(event): the loop of processEventGroup over the one event
processEvent(w, event) == processEventGroup(w, event.type, <<event>>)

\* groupEventsByType(events): the groups in the order their types first occur
RECURSIVE groupEventsByType(_)
groupEventsByType(events) ==
    IF events = <<>> THEN <<>>
    ELSE LET n == Len(events)
             groups == groupEventsByType(SubSeq(events, 1, n - 1))
             event == events[n]
             at == {i \in 1..Len(groups) : groups[i].type = event.type}
         IN IF at = {} THEN Append(groups, [type |-> event.type, events |-> <<event>>])
            ELSE [groups EXCEPT ![CHOOSE i \in at : TRUE].events = Append(@, event)]

\* updateMetrics(eventCount, processingTime).  The average is held as 0, as
\* some other finite double, or as NaN or Infinity; processingTime is 0 or
\* some positive double.
updateMetrics(metrics, eventCount, processingTime) ==
    LET eventsProcessed == metrics.eventsProcessed + eventCount
        average == metrics.averageProcessingTime
        before == eventsProcessed - eventCount
        \* averageProcessingTime * (eventsProcessed - eventCount)
        scaled == IF average.kind = "NaN" THEN NaN
                  ELSE IF ~IsFinite(average) THEN IF before = 0 THEN NaN ELSE average
                  ELSE IF before = 0 \/ average = Number(0, 1) THEN Number(0, 1)
                  ELSE SomeFinite
        totalTime == IF ~IsFinite(scaled) THEN scaled
                     ELSE IF scaled = Number(0, 1) THEN processingTime
                     ELSE SomeFinite
    IN [metrics EXCEPT
           !.eventsProcessed = eventsProcessed,
           !.averageProcessingTime =
               IF ~IsFinite(totalTime) THEN totalTime
               ELSE IF eventsProcessed = 0
               THEN IF totalTime = Number(0, 1) THEN NaN ELSE Infinity
               ELSE totalTime]

\* scheduleProcessing()
scheduleProcessing(w) ==
    IF ~w.es.isProcessing
    THEN [w EXCEPT !.es.isProcessing = TRUE, !.frames = @ + 1]
    ELSE w

\* processEventBuffer(), which took processingTime milliseconds
processEventBuffer(w, processingTime) ==
    LET events == w.es.eventBuffer
        eventGroups == groupEventsByType(events)
        RECURSIVE Each(_, _)
        Each(v, i) ==
            IF i > Len(eventGroups) THEN v
            ELSE Each(processEventGroup(v, eventGroups[i].type, eventGroups[i].events), i + 1)
        processed == Each([w EXCEPT !.es.eventBuffer = <<>>], 1)
        done == [processed EXCEPT
                    !.es.metrics = updateMetrics(@, Len(events), processingTime),
                    !.es.isProcessing = FALSE]
    IN IF Len(done.es.eventBuffer) > 0 THEN scheduleProcessing(done) ELSE done

\* emit(eventType, payload, options), with bufferEvent(event); the id it
\* returns is w.issued.evt of the result
emit(w, eventType, payload, options) ==
    LET event == [type |-> eventType,
                  payload |-> payload,
                  id |-> w.issued.evt + 1,
                  semantic |-> [domains |-> GetOr(w.es.semanticRouting, eventType, <<>>),
                                urgency |-> options.urgency],
                  temporal |-> [delay |-> options.delay]]
        noted == [w EXCEPT !.issued.evt = @ + 1,
                           !.es.eventHistory = add(@, event)]
    IN IF options.immediate \/ event.semantic.urgency = "critical"
       THEN processEvent(noted, event)
       ELSE IF event.temporal.delay > 0
       THEN [noted EXCEPT !.timers = Append(@, event)]
       ELSE scheduleProcessing([noted EXCEPT !.es.eventBuffer = Append(@, event)])

\* the callback of a timer set by bufferEvent
timerCallback(w, event) ==
    scheduleProcessing([w EXCEPT !.es.eventBuffer = Append(@, event)])

\* getMetrics(): the object literal is evaluated key by key
getMetrics(w) ==
    LET system == w.es
        RECURSIVE Count(_)
        Count(types) ==
            IF types = {} THEN 0
            ELSE LET eventType == CHOOSE x \in types : TRUE
                 IN Len(system.listeners[eventType]) + Count(types \ {eventType})
        eventHistorySize == size(system.eventHistory)
    IN IF eventHistorySize.threw THEN eventHistorySize
       ELSE Return([eventsProcessed |-> system.metrics.eventsProcessed,
                    averageProcessingTime |-> system.metrics.averageProcessingTime,
                    bufferOverflows |-> system.metrics.bufferOverflows,
                    routingMisses |-> system.metrics.routingMisses,
                    bufferSize |-> Len(system.eventBuffer),
                    listenerCount |-> Count(DOMAIN system.listeners),
                    eventHistorySize |-> eventHistorySize.value])

\* what callers pass
EventTypes == {"voxel.created", "priority.test"}
DomainLists == {<<>>, <<"narrative">>, <<"physics", "narrative">>}
Priorities == {0, 5, 10}
Options ==
    {[immediate |-> FALSE, urgency |-> "normal", delay |-> 0],
     [immediate |-> TRUE, urgency |-> "normal", delay |-> 0],
     [immediate |-> FALSE, urgency |-> "critical", delay |-> 0],
     [immediate |-> FALSE, urgency |-> "normal", delay |-> 1]}
\* what performance.now() measures for a pass: nothing, or some milliseconds
ProcessingTimes == {Number(0, 1), SomeFinite}

\* ------------------------------------------------------------------ state
VARIABLES
    fft,      \* the fields of the FractionalFFT instance
    signal,   \* the array the caller holds and passes to the engine
    given,    \* the array as the caller made it
    last,     \* the last call and what it gave back; op = "none": no result held
    analysis, \* the last call of an analysis routine: op, arguments, result
    es,       \* the fields of the EventSystem instance
    timers,   \* the delayed events waiting in setTimeout, first to fire first
    frames,   \* the callbacks waiting in requestAnimationFrame
    issued,   \* the subscription ids and the event ids issued so far
    delivered, \* what the last call gave to the handlers, dispatch by dispatch
    chain,    \* the chain object made by createEventChain, and its completions
    asked     \* what the last getMetrics or getAll call gave back

vars == <<fft, signal, given, last, analysis, es, timers, frames, issued, delivered,
          chain, asked>>
\* the transform calls and the analysis calls
engineVars == <<fft, signal, given, last>>
analysisVars == <<analysis>>
eventVars == <<es, timers, frames, issued, delivered, chain, asked>>

\* an event system just constructed, nothing subscribed or emitted
FreshEventSystem ==
    /\ es = EventSystem
    /\ timers = <<>>
    /\ frames = 0
    /\ issued = [sub |-> 0, evt |-> 0]
    /\ delivered = <<>>
    /\ chain = NoChain
    /\ asked = NotAsked

\* no analysis routine called
NoAnalysis == [op |-> "none", arg |-> <<>>, param |-> 0, result |-> <<>>]

\* A call: the operation, its order (NoOrder when it takes none), the second
\* array passed before and after the call (<<>> when none), and the outcome.
Call(op, alpha, second, secondAfter, out) ==
    [op |-> op, alpha |-> alpha, second |-> second, secondAfter |-> secondAfter,
     threw |-> out.threw, error |-> out.error, value |-> out.value,
     normalized |-> out.normalized, path |-> out.path]

NoCall == Call("none", NoOrder, <<>>, <<>>, Outcome(Return(<<>>), NoOrder, "none", Null))

\* signal.length of null or undefined
TypeError == Throw("TypeError: Cannot read properties of null")

\* an engine method without an order, applied to the caller's array
Plain(res) == Outcome(res, NoOrder, "none", signal)

Init ==
    /\ fft = constructor
    /\ signal \in Args
    /\ given = signal
    /\ last = NoCall
    /\ analysis = NoAnalysis
    /\ FreshEventSystem

\* fft.transform(signal, alpha)
CallTransform(alpha) ==
    /\ last.op = "none"
    /\ LET out == transform(signal, alpha)
       IN /\ last' = Call("transform", alpha, <<>>, <<>>, out)
          /\ signal' = out.arg
    /\ UNCHANGED <<fft, given>>
    /\ UNCHANGED <<analysisVars, eventVars>>

\* reconstructed = fft.inverse(transformed, alpha), on the result of
\* transformed = fft.transform(signal, alpha)
CallInverse ==
    /\ last.op = "transform"
    /\ ~last.threw
    /\ last' = Call("inverse", last.alpha, <<>>, <<>>, inverse(Arr(last.value), last.alpha))
    /\ UNCHANGED <<fft, signal, given>>
    /\ UNCHANGED <<analysisVars, eventVars>>

\* fft.standardFFT(signal)
CallStandardFFT ==
    /\ last.op = "none"
    /\ last' = Call("standardFFT", NoOrder, <<>>, <<>>,
                    Plain(IF signal.tag = "array" THEN Return(standardFFT(signal.elems))
                          ELSE TypeError))
    /\ UNCHANGED <<fft, signal, given>>
    /\ UNCHANGED <<analysisVars, eventVars>>

\* fft.standardIFFT(spectrum), on the result of spectrum = fft.standardFFT(signal)
CallStandardIFFT ==
    /\ last.op = "standardFFT"
    /\ ~last.threw
    /\ last' = Call("standardIFFT", NoOrder, <<>>, <<>>, Plain(Return(standardIFFT(last.value))))
    /\ UNCHANGED <<fft, signal, given>>
    /\ UNCHANGED <<analysisVars, eventVars>>

\* fft.fastConvolution(signal, second)
CallFastConvolution(second) ==
    /\ last.op = "none"
    /\ last' = Call("fastConvolution", NoOrder, second, second,
                    Plain(IF signal.tag = "array" THEN fastConvolution(signal.elems, second)
                          ELSE TypeError))
    /\ UNCHANGED <<fft, signal, given>>
    /\ UNCHANGED <<analysisVars, eventVars>>

\* fft.crossCorrelation(signal, second)
CallCrossCorrelation(second) ==
    /\ last.op = "none"
    /\ last' = Call("crossCorrelation", NoOrder, second, second,
                    Plain(IF signal.tag = "array"
                          THEN Return(crossCorrelation(signal.elems, second))
                          ELSE TypeError))
    /\ UNCHANGED <<fft, signal, given>>
    /\ UNCHANGED <<analysisVars, eventVars>>

\* the caller lets go of the result and is free to call again
Forget ==
    /\ last.op # "none"
    /\ last' = NoCall
    /\ UNCHANGED <<fft, signal, given>>
    /\ UNCHANGED <<analysisVars, eventVars>>

Next ==
    \/ \E alpha \in Orders : CallTransform(alpha)
    \/ CallInverse
    \/ CallStandardFFT
    \/ CallStandardIFFT
    \/ \E second \in Seconds : CallFastConvolution(second)
    \/ \E second \in Seconds : CallCrossCorrelation(second)
    \/ Forget

Spec == Init /\ [][Next]_vars

\* ------------------------------------------------------------------ properties
AllExact(x) == \A i \in 1..Len(x) : IsExact(x[i].re) /\ IsExact(x[i].im)

\* the direct DFT: output k is the sum over n of x[n] * exp(-2*pi*i*k*n/N)
RECURSIVE DFTSum(_, _, _)
DFTSum(x, k, n) ==
    IF n >= Len(x) THEN CZero
    ELSE complexAdd(DFTSum(x, k, n + 1), complexMultiply(x[n + 1], Twiddle(k * n, Len(x))))

DFT(x0) == Bind(x0, LAMBDA x : Array([k \in 1..Len(x) |-> DFTSum(x, k - 1, 0)]))

\* 0 <= a < 2
InZeroTwo(a) == ~IsNegative(a) /\ (a.q < 8 \/ (a.q = 8 /\ a.d < 0))

\* C1: transform of a null, undefined or empty signal throws 'Invalid signal
\* input' before any other work: the order is not normalized, no branch is
\* entered, nothing is returned and neither the instance nor the argument
\* changes.
C1_InvalidSignalThrows ==
    (last.op = "transform" /\ (given.tag # "array" \/ Len(given.elems) = 0))
    => /\ last.threw
       /\ last.error = "Invalid signal input"
       /\ last.normalized = NoOrder
       /\ last.path = "none"
       /\ last.value = <<>>
       /\ fft = constructor
       /\ signal = given

C1_Witness ==
    last.op = "transform" /\ given = Arr(<<>>) /\ last.alpha = Order(0, 0) /\ last.threw

\* C2: transform of a non-empty signal of length N returns N samples, for
\* every order.
C2_SameLength ==
    (last.op = "transform" /\ ~last.threw) => Len(last.value) = Len(given.elems)

\* C3: transform(x, 0) returns x, sample by sample.
C3_IdentityAtZero ==
    (last.op = "transform" /\ last.alpha = Order(0, 0) /\ ~last.threw)
    => last.value = given.elems

C3_Witness ==
    /\ last.op = "transform"
    /\ last.alpha = Order(0, 0)
    /\ last.path = "identity"
    /\ given.elems = <<Cx(1, 0), Cx(0, 1), Cx(0, 0)>>

\* C4: transform(x, 1) is the direct DFT of x: N outputs, output k the sum
\* over n of x[n] * exp(-2*pi*i*k*n/N).
C4_StandardIsDFT ==
    (last.op = "transform" /\ last.alpha = Order(4, 0) /\ ~last.threw)
    => /\ Len(last.value) = Len(given.elems)
       /\ AllExact(DFT(given.elems)) => last.value = DFT(given.elems)

\* C5: inverse(transform(x, a), a) returns x.
C5_InverseRoundTrip ==
    (last.op = "inverse" /\ ~last.threw /\ AllExact(last.value))
    => last.value = given.elems

\* C6: standardIFFT(standardFFT(x)) is x: the same length, the same samples.
C6_FFTRoundTrip ==
    (last.op = "standardIFFT" /\ ~last.threw) => last.value = given.elems

\* C7: an order whose angle has its sine within epsilon of zero (an even
\* order, +- Delta) is answered by the identity or the time reversal and
\* never by the chirp path.
C7_SingularOrdersExact ==
    (last.op = "transform" /\ ~last.threw /\ last.alpha.q % 8 = 0)
    => last.path \in {"identity", "reverseSignal"}

C10_NormalizedBelowTwo ==
    (last.op = "transform" /\ ~last.threw) => InZeroTwo(last.normalized)

\* ------------------------------------------------------------------ signal extraction
\* longest list of thread records of a session
MaxThreads == 2
\* longest temporalFlow list of a session
MaxFlow == 3

\* a field that is undefined; the numeric fields hold naturals
Missing == -1
\* x || 0
OrZero(x) == IF x = Missing THEN 0 ELSE x
\* x * 0.1: exact in doubles on the multiples of 10 (10 * 0.1 is 1)
TimesTenth(x) == IF x % 10 = 0 THEN RInt(x \div 10) ELSE Inexact

\* thread.contentAnalysis; creative is patternMatches.get('creative'), Missing
\* when the analysis holds no patternMatches
ContentAnalysis(semanticWeight, abstractionLevel, technicalDensity, creative) ==
    [present |-> TRUE, semanticWeight |-> semanticWeight,
     abstractionLevel |-> abstractionLevel, technicalDensity |-> technicalDensity,
     creative |-> creative]
NoContentAnalysis ==
    [present |-> FALSE, semanticWeight |-> Missing, abstractionLevel |-> Missing,
     technicalDensity |-> Missing, creative |-> Missing]
Thread(complexity, interactions, contentAnalysis) ==
    [complexity |-> complexity, interactions |-> interactions,
     contentAnalysis |-> contentAnalysis]

\* contentAnalysis?.field
Optional(contentAnalysis, field) ==
    IF contentAnalysis.present THEN contentAnalysis[field] ELSE Missing

Largest(S) == CHOOSE m \in S : \A n \in S : n <= m

\* the signal keeps its first targetLength samples
normalizeSignalLengthPadOnly(signal0, targetLength) ==
    Bind(signal0, LAMBDA s :
        IF Len(s) >= targetLength THEN s
        ELSE s \o Zeros(targetLength - Len(s)))

normalizeSignalLength(signal0, targetLength) ==
    Bind(signal0, LAMBDA s :
        IF Len(s) = targetLength THEN s
        ELSE IF Len(s) > targetLength THEN SubSeq(s, 1, targetLength)
        ELSE s \o Zeros(targetLength - Len(s)))

\* the signals of extractSignals before they are brought to one length
rawSignals(parsedData) ==
    LET threads == parsedData.threads
        Map(re(_), im(_)) ==
            Array([i \in 1..Len(threads) |-> [re |-> re(threads[i]), im |-> im(threads[i])]])
        zero(thread) == RZero
        always ==
            [complexity |->
                Map(LAMBDA thread : RInt(OrZero(thread.complexity)), zero),
             semanticDensity |->
                Map(LAMBDA thread :
                        RInt(OrZero(Optional(thread.contentAnalysis, "semanticWeight"))), zero),
             interactions |->
                Map(LAMBDA thread : RInt(OrZero(thread.interactions)), zero),
             abstraction |->
                Map(LAMBDA thread :
                        RInt(OrZero(Optional(thread.contentAnalysis, "abstractionLevel"))), zero),
             technicalCreative |->
                Map(LAMBDA thread :
                        RInt(OrZero(Optional(thread.contentAnalysis, "technicalDensity"))),
                    LAMBDA thread :
                        TimesTenth(OrZero(Optional(thread.contentAnalysis, "creative"))))]
        flow == parsedData.temporalFlow
    IN IF flow.present
       THEN always @@ [name \in {"momentum"} |->
                Array([i \in 1..Len(flow.list) |->
                         [re |-> RInt(OrZero(flow.list[i].momentum)), im |-> RZero]])]
       ELSE always

extractSignals(parsedData) ==
    Bind(rawSignals(parsedData), LAMBDA signals :
        LET longest == Largest({Len(signals[name]) : name \in DOMAIN signals})
            maxLength == IF maxSamples <= longest THEN maxSamples ELSE longest
        IN [name \in DOMAIN signals |-> normalizeSignalLength(signals[name], maxLength)])

\* the thread records of the sessions: bare, as the tests write them, and as
\* the parser writes them, with 0 or 10 creative matches
Threads ==
    {Thread(Missing, Missing, NoContentAnalysis),
     Thread(1, 2, ContentAnalysis(3, 1, 1, Missing)),
     Thread(2, 0, ContentAnalysis(1, 0, 2, 0)),
     Thread(3, 1, ContentAnalysis(2, 1, 1, 10))}
NoFlow == [present |-> FALSE, list |-> <<>>]
Flow(list) == [present |-> TRUE, list |-> list]
Flows ==
    {NoFlow} \cup {Flow(l) : l \in UNION {[1..n -> {[momentum |-> Missing], [momentum |-> 1]}] :
                                           n \in 0..MaxFlow}}
\* sessions longer than maxSamples: in the threads, and in the flow
LongSessions ==
    {[threads |-> Array([i \in 1..(maxSamples + 1) |->
                            Thread(i % 3, i % 2, NoContentAnalysis)]),
      temporalFlow |-> NoFlow],
     [threads |-> <<Thread(1, 2, ContentAnalysis(3, 1, 1, Missing))>>,
      temporalFlow |-> Flow(Array([i \in 1..(maxSamples + 2) |-> [momentum |-> i % 2]]))]}
Sessions ==
    {[threads |-> t, temporalFlow |-> f] :
        t \in UNION {[1..n -> Threads] : n \in 0..MaxThreads}, f \in Flows}
    \cup LongSessions

\* ------------------------------------------------------------------ sums of squares
\* magnitudes.reduce((sum, mag) => sum + mag * mag, 0)
RECURSIVE SumSquares(_)
SumSquares(magnitudes) ==
    IF Len(magnitudes) = 0 THEN 0
    ELSE Head(magnitudes) * Head(magnitudes) + SumSquares(Tail(magnitudes))

\* ------------------------------------------------------------------ energy bands
\* most bands of a call
MaxBands == 3
\* the band count of extractFeatures
FeatureBands == 8

\* the band of bin i (counted from 0): Math.min(Math.floor(i / bandSize),
\* numBands - 1).  With bandSize 0, 0 / 0 is NaN and Math.min gives NaN:
\* no band (0 here); i / 0 is Infinity for i > 0: the last band.
BandIndex(i, bandSize, numBands) ==
    IF bandSize = 0 THEN IF i = 0 THEN 0 ELSE numBands
    ELSE IF i \div bandSize <= numBands - 1 THEN i \div bandSize + 1 ELSE numBands

\* bands[b] after the loop: the squares of the bins whose band is b.  A bin
\* with no band adds to the property bands["NaN"], which is no element.
computeEnergyBands(magnitudes, numBands) ==
    LET bandSize == Len(magnitudes) \div numBands
        InBand(b) == Array([i \in 1..Len(magnitudes) |->
                        IF BandIndex(i - 1, bandSize, numBands) = b THEN magnitudes[i] ELSE 0])
    IN Array([b \in 1..numBands |-> SumSquares(InBand(b))])

\* extractFeatures, lines 358-361: the bands over the total energy
energyDistribution(magnitudes, numBands) ==
    LET totalEnergy == SumSquares(magnitudes)
    IN Bind(computeEnergyBands(magnitudes, numBands), LAMBDA energyBands :
           [bands |-> energyBands,
            distribution |-> Array([b \in 1..Len(energyBands) |->
                                      Quotient(energyBands[b], totalEnergy)])])

\* longest magnitude vector enumerated in full
MaxBins == 4
Levels == {0, 1, 2}
\* magnitude vectors: every short one, and two longer than FeatureBands
Magnitudes ==
    UNION {[1..n -> Levels] : n \in 0..MaxBins}
    \cup {Array([i \in 1..(2 * FeatureBands + 1) |-> i % 3]),
          Array([i \in 1..(FeatureBands + 1) |-> 0])}
BandCounts == (1..MaxBands) \cup {FeatureBands}

\* ------------------------------------------------------------------ report
\* nested calls the stack holds; one more overflows it
MaxStack == 3

\* An analysis object is a function from its keys to its values; a key
\* outside its DOMAIN reads undefined.  The samples of its transforms are
\* pairs of integers.
\* c.re * c.re + c.im * c.im, summed over a transform
RECURSIVE TransformEnergy(_)
TransformEnergy(spectrum) ==
    IF Len(spectrum) = 0 THEN 0
    ELSE Head(spectrum).re * Head(spectrum).re + Head(spectrum).im * Head(spectrum).im
         + TransformEnergy(Tail(spectrum))

RECURSIVE EnergyOver(_, _)
EnergyOver(transforms, names) ==
    IF names = {} THEN 0
    ELSE LET name == CHOOSE n \in names : TRUE
         IN TransformEnergy(transforms[name]) + EnergyOver(transforms, names \ {name})

calculateTotalEnergy(transforms) == EnergyOver(transforms, DOMAIN transforms)

\* Object.values(undefined), Object.keys(undefined), Object.entries(undefined)
NoObject == Throw("TypeError: Cannot convert undefined or null to object")
StackOverflow == Throw("RangeError: Maximum call stack size exceeded")

orders == <<"temporal", "semantic", "emergent", "hyperstitious">>
\* order + (order.endsWith('s') ? '' : 'Patterns')
OrderKey(order) ==
    IF order = "hyperstitious" THEN "hyperstitious"
    ELSE IF order = "temporal" THEN "temporalPatterns"
    ELSE IF order = "semantic" THEN "semanticPatterns"
    ELSE "emergentPatterns"

\* the key under which analyzeSessionData stores the transforms of an order
OrderMap(order) ==
    IF order = "hyperstitious" THEN "hyperstiousSignatures"
    ELSE IF order = "temporal" THEN "temporalPatterns"
    ELSE IF order = "semantic" THEN "semanticStructures"
    ELSE "emergentProperties"

findDominantOrder(analysisObject) ==
    IF \E i \in 1..Len(orders) : OrderKey(orders[i]) \notin DOMAIN analysisObject
    THEN NoObject
    ELSE Bind(Array([i \in 1..Len(orders) |->
                        calculateTotalEnergy(analysisObject[OrderKey(orders[i])])]),
              LAMBDA energies :
                LET maxEnergy == Largest({energies[i] : i \in 1..Len(energies)})
                    maxEnergyIndex == CHOOSE i \in 1..Len(energies) :
                                         /\ energies[i] = maxEnergy
                                         /\ \A j \in 1..(i - 1) : energies[j] # maxEnergy
                IN Return(orders[maxEnergyIndex]))

\* What a report call did: threw/error as for every call; dominantOrder is
\* what findDominantOrder returned to the outermost call ("none" when it did
\* not return); returned tells that a report object came back, with its
\* sections.
ReportOutcome(threw, error, dominantOrder, sections) ==
    [threw |-> threw, error |-> error, dominantOrder |-> dominantOrder, sections |-> sections]

\* generateAnalysisReport as call number depth on the stack.  The object
\* literal is evaluated in order: summary (totalSignals, dominantOrder,
\* complexity, coherence), patterns, and recommendations, for which
\* generateRecommendations calls generateAnalysisReport again.
RECURSIVE ReportAtDepth(_, _)
ReportAtDepth(analysisObject, depth) ==
    IF depth > MaxStack THEN ReportOutcome(TRUE, StackOverflow.error, "none", {})
    ELSE IF "temporalPatterns" \notin DOMAIN analysisObject
         THEN ReportOutcome(TRUE, NoObject.error, "none", {})
    ELSE Bind(findDominantOrder(analysisObject), LAMBDA dominant :
        IF dominant.threw THEN ReportOutcome(TRUE, dominant.error, "none", {})
        ELSE IF \E key \in {"features", "crossDomainCorrelations", "semanticStructures",
                            "emergentProperties", "hyperstiousSignatures"} :
                    key \notin DOMAIN analysisObject
             THEN ReportOutcome(TRUE, NoObject.error, dominant.value, {})
        ELSE Bind(ReportAtDepth(analysisObject, depth + 1), LAMBDA inner :
                IF inner.threw THEN ReportOutcome(TRUE, inner.error, dominant.value, {})
                ELSE ReportOutcome(FALSE, "", dominant.value,
                                   {"summary", "patterns", "recommendations"})))

generateAnalysisReport(fractionalAnalysis) == ReportAtDepth(fractionalAnalysis, 1)

\* the transforms of the report's inputs, of energy 0, 2 and 4
Spectra ==
    {<<[re |-> 0, im |-> 0]>>,
     <<[re |-> 1, im |-> 0], [re |-> 0, im |-> 1]>>,
     <<[re |-> 2, im |-> 0]>>}
Transforms(spectrum) == [name \in {"test_signal"} |-> spectrum]
\* what analyzeSessionData returns
AnalysisObject(t, s, e, h) ==
    [temporalPatterns |-> Transforms(t), semanticStructures |-> Transforms(s),
     emergentProperties |-> Transforms(e), hyperstiousSignatures |-> Transforms(h),
     crossDomainCorrelations |-> <<>>,
     features |-> [dominantFrequencies |-> <<>>, energyDistribution |-> <<>>]]
\* an object that holds, besides, the keys findDominantOrder reads
WithOrderKeys(object) ==
    object @@ [key \in {"semanticPatterns", "emergentPatterns", "hyperstitious"} |->
                  IF key = "semanticPatterns" THEN object.emergentProperties
                  ELSE IF key = "emergentPatterns" THEN object.hyperstiousSignatures
                  ELSE object.semanticStructures]
AnalysisObjects ==
    LET plain == {AnalysisObject(t, s, e, h) : t \in Spectra, s \in Spectra,
                                               e \in Spectra, h \in Spectra}
    IN plain \cup {WithOrderKeys(object) : object \in plain}

\* ------------------------------------------------------------------ features
\* values.reduce((sum, val) => sum + val, 0)
RECURSIVE Total(_)
Total(values) == IF Len(values) = 0 THEN 0 ELSE Head(values) + Total(Tail(values))

\* the weights are the magnitudes, not their squares
calculateSpectralCentroidUnsquared(magnitudes) ==
    LET Weighted == Array([i \in 1..Len(magnitudes) |-> (i - 1) * magnitudes[i]])
        Sum[n \in 0..Len(magnitudes)] == IF n = 0 THEN 0 ELSE Sum[n - 1] + Weighted[n]
        Den[n \in 0..Len(magnitudes)] == IF n = 0 THEN 0 ELSE Den[n - 1] + magnitudes[n]
    IN IF Den[Len(magnitudes)] > 0 THEN Quotient(Sum[Len(magnitudes)], Den[Len(magnitudes)])
       ELSE Number(0, 1)

\* numerator / denominator, whatever the denominator
calculateSpectralCentroidUnguarded(magnitudes) ==
    Quotient(Total(Array([i \in 1..Len(magnitudes) |-> (i - 1) * magnitudes[i] * magnitudes[i]])),
             SumSquares(magnitudes))

\* numerator and denominator after n turns of the loop
calculateSpectralCentroid(magnitudes) ==
    LET weight(i) == magnitudes[i + 1] * magnitudes[i + 1]
        numerator[n \in 0..Len(magnitudes)] ==
            IF n = 0 THEN 0 ELSE numerator[n - 1] + (n - 1) * weight(n - 1)
        denominator[n \in 0..Len(magnitudes)] ==
            IF n = 0 THEN 0 ELSE denominator[n - 1] + weight(n - 1)
    IN IF denominator[Len(magnitudes)] > 0
       THEN Quotient(numerator[Len(magnitudes)], denominator[Len(magnitudes)])
       ELSE Number(0, 1)

\* TmuxDataParser.calculateEntropy.  p * Math.log2(p) is held exactly when p
\* is 1 / 2^k (it is -k / 2^k); a sum with another p is some finite double.
calculateEntropy(values) ==
    LET total == Total(values)
        positive == SelectSeq(values, LAMBDA val : val > 0)
        dyadic(val) == total % val = 0 /\ IsPow2(total \div val)
        \* -p * log2(p) * total, for p = val / total = 1 / 2^k
        term(val) == Log2(total \div val) * val
    IN IF total = 0 THEN Number(0, 1)
       ELSE IF \A i \in 1..Len(positive) : dyadic(positive[i])
            THEN Quotient(Total(Array([i \in 1..Len(positive) |-> term(positive[i])])), total)
       ELSE SomeFinite

\* A phase is held as its number of quarter turns: Math.atan2 of a sample on
\* an axis, and of {re: 0, im: 0}, which is 0.
Atan2(c) ==
    IF c.im = 0 THEN IF c.re >= 0 THEN 0 ELSE 2
    ELSE IF c.im > 0 THEN 1 ELSE -1
CosQuarter(q) == IF q = 0 THEN 1 ELSE IF q = 2 THEN -1 ELSE 0
SinQuarter(q) == IF q = 1 THEN 1 ELSE IF q = -1 THEN -1 ELSE 0

\* Math.sqrt of an integer
SqrtOf(n) == IF \E k \in 0..n : k * k = n THEN Number(CHOOSE k \in 0..n : k * k = n, 1)
             ELSE SomeFinite

\* x / n
Over(x, n) == IF x.kind = "number" THEN Quotient(x.num, x.den * n) ELSE x

\* TmuxDataParser.calculatePhaseCoherence
calculatePhaseCoherence(phases) ==
    IF Len(phases) < 2 THEN Number(0, 1)
    ELSE LET sumCos == Total(Array([i \in 1..Len(phases) |-> CosQuarter(phases[i])]))
             sumSin == Total(Array([i \in 1..Len(phases) |-> SinQuarter(phases[i])]))
         IN Over(SqrtOf(sumCos * sumCos + sumSin * sumSin), Len(phases))

\* the features of one transform: its magnitudes and phases
\* (TmuxDataParser.js lines 487-488, 580-581) and the three routines on them
signalFeatures(spectrum) ==
    LET magnitudes == Array([i \in 1..Len(spectrum) |->
                               SqrtOf(spectrum[i].re * spectrum[i].re
                                      + spectrum[i].im * spectrum[i].im).num])
        phases == Array([i \in 1..Len(spectrum) |-> Atan2(spectrum[i])])
    IN [magnitudes |-> magnitudes,
        phases |-> phases,
        entropy |-> calculateEntropy(magnitudes),
        spectralCentroid |-> calculateSpectralCentroid(magnitudes),
        phaseCoherence |-> calculatePhaseCoherence(phases)]

\* samples on the axes, whose magnitudes are integers
AxisSamples ==
    {[re |-> 0, im |-> 0], [re |-> 1, im |-> 0], [re |-> 0, im |-> 1], [re |-> -2, im |-> 0]}
AxisSpectra == UNION {[1..n -> AxisSamples] : n \in 0..MaxBins}

\* ------------------------------------------------------------------ bandwidth
\* calculateBandwidth(magnitudes).  cumulativeEnergy > totalEnergy * 0.05 is
\* decided on the integers as 20 * cumulativeEnergy > totalEnergy.
calculateBandwidth(magnitudes) ==
    LET N == Len(magnitudes)
        totalEnergy == Total(Array([i \in 1..N |-> magnitudes[i] * magnitudes[i]]))
        \* cumulativeEnergy after bin i of the first loop, and of the second
        ascending(i) == Total(Array([j \in 1..(i + 1) |-> magnitudes[j] * magnitudes[j]]))
        descending(i) == Total(Array([j \in 1..(N - i) |->
                                        magnitudes[N + 1 - j] * magnitudes[N + 1 - j]]))
        starts == {i \in 0..(N - 1) : 20 * ascending(i) > totalEnergy}
        ends == {i \in 0..(N - 1) : 20 * descending(i) > totalEnergy}
        start == IF starts = {} THEN 0 ELSE CHOOSE i \in starts : \A j \in starts : i <= j
        end == IF ends = {} THEN N - 1 ELSE CHOOSE i \in ends : \A j \in ends : i >= j
    IN Number(end - start + 1, 1)

\* magnitude vectors with a peak between two small bins
PeakedMagnitudes == {<<1, 5, 1>>, <<1, 6, 1>>, <<0, 1, 5, 1>>, <<5, 1>>}

\* ------------------------------------------------------------------ dominant bins
\* the filter keeps the bins at or above half the maximum
dominantBinsAtLeastHalf(spectrum) ==
    LET magnitudes == Array([i \in 1..Len(spectrum) |->
                               SqrtOf(spectrum[i].re * spectrum[i].re
                                      + spectrum[i].im * spectrum[i].im).num])
        kept == {i \in 1..Len(magnitudes) :
                    \A j \in 1..Len(magnitudes) : 2 * magnitudes[i] >= magnitudes[j]}
        before(j, i) == \/ magnitudes[j] > magnitudes[i]
                        \/ magnitudes[j] = magnitudes[i] /\ j < i
        place(i) == Cardinality({j \in kept : before(j, i)}) + 1
        sorted == [p \in 1..Cardinality(kept) |->
                      LET i == CHOOSE k \in kept : place(k) = p
                      IN [index |-> i - 1, magnitude |-> magnitudes[i]]]
    IN SubSeq(sorted, 1, IF Len(sorted) < 5 THEN Len(sorted) ELSE 5)

\* extractFeatures, lines 346-354: the dominant bins of one transform.
\* item.magnitude > maxMagnitude * 0.5 is decided as 2 * magnitude > max;
\* Math.max() of no magnitudes is -Infinity and nothing is kept.  The sort
\* is stable: equal magnitudes stay in index order.
dominantBins(spectrum) ==
    LET magnitudes == Array([i \in 1..Len(spectrum) |->
                               SqrtOf(spectrum[i].re * spectrum[i].re
                                      + spectrum[i].im * spectrum[i].im).num])
        kept == {i \in 1..Len(magnitudes) :
                    \A j \in 1..Len(magnitudes) : 2 * magnitudes[i] > magnitudes[j]}
        before(j, i) == \/ magnitudes[j] > magnitudes[i]
                        \/ magnitudes[j] = magnitudes[i] /\ j < i
        place(i) == Cardinality({j \in kept : before(j, i)}) + 1
        sorted == [p \in 1..Cardinality(kept) |->
                      LET i == CHOOSE k \in kept : place(k) = p
                      IN [index |-> i - 1, magnitude |-> magnitudes[i]]]
    IN SubSeq(sorted, 1, IF Len(sorted) < 5 THEN Len(sorted) ELSE 5)

\* transforms of six bins, one more than the list keeps
LongSpectra ==
    [1..6 -> {[re |-> 0, im |-> 0], [re |-> -2, im |-> 0], [re |-> 0, im |-> 3]}]

\* ------------------------------------------------------------------ the parser
\* a field of the parsed data that holds an object, or null
Object(value) == [tag |-> "object", value |-> value]
NullField == [tag |-> "null", value |-> <<>>]

\* Object.keys(signals), in the order extractSignals writes them
SignalNames(signals) ==
    SelectSeq(<<"complexity", "semanticDensity", "interactions", "abstraction",
                "technicalCreative", "momentum">>,
              LAMBDA name : name \in DOMAIN signals)

\* the correlation of every pair of signals, the pair taken as its two names
computeCorrelations(signals) ==
    LET signalNames == SignalNames(signals)
        indices == {ij \in (1..Len(signalNames)) \X (1..Len(signalNames)) : ij[1] < ij[2]}
    IN [pair \in {<<signalNames[ij[1]], signalNames[ij[2]]>> : ij \in indices} |->
            crossCorrelation(signals[pair[1]], signals[pair[2]])]

\* analyzeSessionData: the transforms of every signal at four of the engine's
\* orders, the correlations and the features; the first transform that throws
\* ends the call.  The feature lists are left empty here.
analyzeSessionData(engine, parsedSessionData) ==
    Bind(extractSignals(parsedSessionData), LAMBDA signals :
        LET at(name, order) == transform(Arr(signals[name]), order)
            thrown == {name \in DOMAIN signals :
                          at(name, engine.analysisOrders.temporal).threw}
        IN IF thrown # {}
           THEN Throw(at(CHOOSE name \in thrown : TRUE, engine.analysisOrders.temporal).error)
           ELSE LET values(order) ==
                        [name \in DOMAIN signals |-> at(name, order).value]
                IN Return([temporalPatterns |-> values(engine.analysisOrders.temporal),
                           semanticStructures |-> values(engine.analysisOrders.semantic),
                           emergentProperties |-> values(engine.analysisOrders.emergent),
                           hyperstiousSignatures |->
                                values(engine.analysisOrders.hyperstitious),
                           crossDomainCorrelations |-> computeCorrelations(signals),
                           features |-> [dominantFrequencies |-> <<>>,
                                         energyDistribution |-> <<>>]]))

\* extractHyperstitiousPatterns: null without signatures, else the patterns
\* object, of which the keys are kept
extractHyperstitiousPatterns(fractionalAnalysis) ==
    IF fractionalAnalysis.tag = "null"
       \/ "hyperstiousSignatures" \notin DOMAIN fractionalAnalysis.value
    THEN NullField
    ELSE Object({"emergentFrequencies", "synchronicities", "recursiveLoops",
                 "temporalAnomalies", "semanticResonance", "causalInversions"})

\* the parsed data of lines 43-68, before the analysis step.  The session
\* carries for every thread what the content routines make of it
\* (complexity, contentAnalysis) and the flow analyzeTemporalFlow makes of its
\* threads.
parsedBeforeAnalysis(sessionData) ==
    LET RECURSIVE total(_)
        total(k) == IF k = 0 THEN 0
                    ELSE total(k - 1) + OrZero(sessionData.threads[k].interactions)
    IN [totalThreads |-> Len(sessionData.threads),
        totalInteractions |-> total(Len(sessionData.threads)),
        threads |-> Array([k \in 1..Len(sessionData.threads) |->
                            [sessionData.threads[k] EXCEPT !.interactions = OrZero(@)]]),
        temporalFlow |-> sessionData.temporalFlow]

\* What parse did: threw/error/value as for every call, value the parsed
\* data; warned is the message given to console.warn ("" when none);
\* analysed tells that analyzeSessionData had returned.
ParseOutcome(parsed, threeFields, warned, analysed) ==
    [threw |-> FALSE, error |-> "", value |-> parsed @@ threeFields,
     warned |-> warned, analysed |-> analysed]
ThreeFields(fractionalAnalysis, fractionalReport, hyperstitiousPatterns) ==
    [fractionalAnalysis |-> fractionalAnalysis, fractionalReport |-> fractionalReport,
     hyperstitiousPatterns |-> hyperstitiousPatterns]

\* the try block of parse with a catch block that is handed the analysis made
\* so far and says what becomes of it
ParseWith(engine, sessionData, caught(_)) ==
    IF sessionData.tag # "object" \/ ~sessionData.hasThreads
    THEN [threw |-> TRUE, error |-> "Invalid session data: missing threads",
          value |-> <<>>, warned |-> "", analysed |-> FALSE]
    ELSE Bind(parsedBeforeAnalysis(sessionData), LAMBDA parsed :
         Bind(analyzeSessionData(engine, parsed), LAMBDA made :
            IF made.threw
            THEN ParseOutcome(parsed, ThreeFields(caught(NullField), NullField, NullField),
                              made.error, FALSE)
            ELSE Bind(generateAnalysisReport(made.value), LAMBDA report :
                    IF report.threw
                    THEN ParseOutcome(parsed,
                            ThreeFields(caught(Object(made.value)), NullField, NullField),
                            report.error, TRUE)
                    ELSE ParseOutcome(parsed,
                            ThreeFields(Object(made.value), Object(report.sections),
                                        extractHyperstitiousPatterns(Object(made.value))),
                            "", TRUE))))

\* a catch block that leaves parsed.fractionalAnalysis as the try block set it
parseKeepAnalysis(engine, sessionData) ==
    ParseWith(engine, sessionData, LAMBDA made : made)

parse(engine, sessionData) ==
    ParseWith(engine, sessionData, LAMBDA made : NullField)

\* the arguments of parse: null, an object without threads, and the sessions
\* whose flow holds one entry for every thread
SessionData ==
    {[tag |-> "null", hasThreads |-> FALSE, threads |-> <<>>, temporalFlow |-> NoFlow],
     [tag |-> "object", hasThreads |-> FALSE, threads |-> <<>>, temporalFlow |-> NoFlow]}
    \cup {[tag |-> "object", hasThreads |-> TRUE, threads |-> s.threads,
           temporalFlow |-> s.temporalFlow] :
            s \in {s \in Sessions \ LongSessions :
                      /\ s.temporalFlow.present
                      /\ Len(s.temporalFlow.list) = Len(s.threads)}}

\* ------------------------------------------------------------------ causal inversions
\* TmuxDataParser.detectCausalInversions(fractionalAnalysis).  The object's
\* crossDomainCorrelations are present or not, and the list of their entries,
\* [pairName, correlation]; the records returned hold signalPair, lag,
\* strength and type.
detectCausalInversions(fractionalAnalysis) ==
    IF ~fractionalAnalysis.crossDomainCorrelations.present THEN <<>>
    ELSE LET entries == fractionalAnalysis.crossDomainCorrelations.entries
             magnitudes(correlation) ==
                Array([i \in 1..Len(correlation) |->
                         SqrtOf(correlation[i].re * correlation[i].re
                                + correlation[i].im * correlation[i].im).num])
             \* Math.max(...magnitudes) of a non-empty list
             max(mags) == Largest({mags[i] : i \in 1..Len(mags)})
             \* magnitudes.indexOf(Math.max(...magnitudes)); -1 in an empty list,
             \* where the maximum is -Infinity
             peakIndex(mags) ==
                IF Len(mags) = 0 THEN -1
                ELSE (CHOOSE i \in 1..Len(mags) :
                        /\ mags[i] = max(mags)
                        /\ \A j \in 1..(i - 1) : mags[j] # max(mags)) - 1
             centerIndex(mags) == Len(mags) \div 2
             reported(entry) ==
                peakIndex(magnitudes(entry[2])) < centerIndex(magnitudes(entry[2])) - 2
             record(entry) ==
                LET mags == magnitudes(entry[2])
                IN [signalPair |-> entry[1],
                    lag |-> peakIndex(mags) - centerIndex(mags),
                    strength |-> Quotient(mags[peakIndex(mags) + 1], max(mags)),
                    type |-> "causal_inversion"]
             found == SelectSeq(entries, reported)
         IN Array([k \in 1..Len(found) |-> record(found[k])])

\* analysis objects with the cross-correlation of one signal pair, and one
\* without correlations
CorrelationObjects ==
    {[crossDomainCorrelations |->
        [present |-> TRUE, entries |-> <<<<"complexity_interactions", correlation>>>>]] :
        correlation \in AxisSpectra \cup LongSpectra}
    \cup {[crossDomainCorrelations |-> [present |-> FALSE, entries |-> <<>>]]}

\* ------------------------------------------------------------------ analysis calls
Analysis(op, arg, param, result) == [op |-> op, arg |-> arg, param |-> param, result |-> result]

InitAnalysis ==
    /\ fft = constructor
    /\ signal = Undefined
    /\ given = Undefined
    /\ last = NoCall
    /\ analysis = NoAnalysis
    /\ FreshEventSystem

\* fft.extractSignals(parsedData)
CallExtractSignals(parsedData) ==
    /\ analysis.op = "none"
    /\ analysis' = Analysis("extractSignals", parsedData, 0, extractSignals(parsedData))
    /\ UNCHANGED <<engineVars, eventVars>>

\* fft.computeEnergyBands(magnitudes, numBands) and the division by the
\* total energy that extractFeatures applies to its result
CallEnergyBands(magnitudes, numBands) ==
    /\ analysis.op = "none"
    /\ analysis' = Analysis("computeEnergyBands", magnitudes, numBands,
                            energyDistribution(magnitudes, numBands))
    /\ UNCHANGED <<engineVars, eventVars>>

\* fft.generateAnalysisReport(fractionalAnalysis)
CallGenerateAnalysisReport(fractionalAnalysis) ==
    /\ analysis.op = "none"
    /\ analysis' = Analysis("generateAnalysisReport", fractionalAnalysis, 0,
                            generateAnalysisReport(fractionalAnalysis))
    /\ UNCHANGED <<engineVars, eventVars>>

\* fft.calculateSpectralCentroid(magnitudes)
CallSpectralCentroid(magnitudes) ==
    /\ analysis.op = "none"
    /\ analysis' = Analysis("calculateSpectralCentroid", magnitudes, 0,
                            calculateSpectralCentroid(magnitudes))
    /\ UNCHANGED <<engineVars, eventVars>>

\* the entropy, spectral centroid and phase coherence of one transform
CallSignalFeatures(spectrum) ==
    /\ analysis.op = "none"
    /\ analysis' = Analysis("signalFeatures", spectrum, 0, signalFeatures(spectrum))
    /\ UNCHANGED <<engineVars, eventVars>>

\* fft.calculateBandwidth(magnitudes)
CallCalculateBandwidth(magnitudes) ==
    /\ analysis.op = "none"
    /\ analysis' = Analysis("calculateBandwidth", magnitudes, 0, calculateBandwidth(magnitudes))
    /\ UNCHANGED <<engineVars, eventVars>>

\* the dominant-frequency list extractFeatures makes for one transform
CallDominantBins(spectrum) ==
    /\ analysis.op = "none"
    /\ analysis' = Analysis("dominantBins", spectrum, 0, dominantBins(spectrum))
    /\ UNCHANGED <<engineVars, eventVars>>

\* parser.detectCausalInversions(fractionalAnalysis)
CallDetectCausalInversions(fractionalAnalysis) ==
    /\ analysis.op = "none"
    /\ analysis' = Analysis("detectCausalInversions", fractionalAnalysis, 0,
                            detectCausalInversions(fractionalAnalysis))
    /\ UNCHANGED <<engineVars, eventVars>>

\* parser.parse(sessionData), the parser holding an engine as constructed
CallParse(sessionData) ==
    /\ analysis.op = "none"
    /\ analysis' = Analysis("parse", sessionData, 0, parse(constructor, sessionData))
    /\ UNCHANGED <<engineVars, eventVars>>

\* the caller lets go of the result
ForgetAnalysis ==
    /\ analysis.op # "none"
    /\ analysis' = NoAnalysis
    /\ UNCHANGED <<engineVars, eventVars>>

NextAnalysis ==
    \/ \E parsedData \in Sessions : CallExtractSignals(parsedData)
    \/ \E magnitudes \in Magnitudes, numBands \in BandCounts :
            CallEnergyBands(magnitudes, numBands)
    \/ \E fractionalAnalysis \in AnalysisObjects :
            CallGenerateAnalysisReport(fractionalAnalysis)
    \/ \E magnitudes \in Magnitudes : CallSpectralCentroid(magnitudes)
    \/ \E spectrum \in AxisSpectra : CallSignalFeatures(spectrum)
    \/ \E magnitudes \in Magnitudes \cup PeakedMagnitudes : CallCalculateBandwidth(magnitudes)
    \/ \E spectrum \in AxisSpectra \cup LongSpectra : CallDominantBins(spectrum)
    \/ \E fractionalAnalysis \in CorrelationObjects :
            CallDetectCausalInversions(fractionalAnalysis)
    \/ \E sessionData \in SessionData : CallParse(sessionData)
    \/ ForgetAnalysis

SpecAnalysis == InitAnalysis /\ [][NextAnalysis]_vars

\* C11: the signals extractSignals returns have one length L, the longest raw
\* signal capped at maxSamples; each is its raw signal cut to its first L
\* samples or continued with {re: 0, im: 0} up to L.
C11_CommonLength ==
    analysis.op = "extractSignals" =>
        LET raw == rawSignals(analysis.arg)
            longest == Largest({Len(raw[name]) : name \in DOMAIN raw})
            L == IF longest > maxSamples THEN maxSamples ELSE longest
        IN /\ DOMAIN analysis.result = DOMAIN raw
           /\ \A name \in DOMAIN raw :
                /\ Len(analysis.result[name]) = L
                /\ \A i \in 1..L :
                      analysis.result[name][i] =
                          IF i <= Len(raw[name]) THEN raw[name][i] ELSE CZero

C11_Witness ==
    /\ analysis.op = "extractSignals"
    /\ Len(analysis.arg.temporalFlow.list) > maxSamples
    /\ Len(analysis.result["momentum"]) = maxSamples
    /\ Len(analysis.arg.threads) = 1
    /\ analysis.result["complexity"][2] = CZero

\* C12: every sample of every signal extractSignals returns has imaginary
\* part 0.
C12_RealValued ==
    analysis.op = "extractSignals" =>
        \A name \in DOMAIN analysis.result :
            \A i \in 1..Len(analysis.result[name]) : analysis.result[name][i].im = RZero

\* the sum of the numbers of a list
RECURSIVE SumOf(_)
SumOf(terms) ==
    IF Len(terms) = 0 THEN RZero ELSE RAdd(Head(terms), SumOf(Tail(terms)))

\* element l of the correlation of s1 and s2 over N samples, in real and
\* imaginary parts: s1[n] * conj(s2[n+l]) is
\* (a.re*b.re + a.im*b.im) + i*(a.im*b.re - a.re*b.im)
CorrelationAt(s1, s2, N, l) ==
    [re |-> SumOf(Array([n \in 1..(N - l) |->
                RAdd(RMul(s1[n].re, s2[n + l].re), RMul(s1[n].im, s2[n + l].im))])),
     im |-> SumOf(Array([n \in 1..(N - l) |->
                RSub(RMul(s1[n].im, s2[n + l].re), RMul(s1[n].re, s2[n + l].im))]))]

\* C13: crossCorrelation(s1, s2) has N = min(len(s1), len(s2)) elements;
\* element l is the sum over n in 0..N-1-l of s1[n] * conj(s2[n+l]), and its
\* real part is a finite number.
C13_CrossCorrelation ==
    (last.op = "crossCorrelation" /\ ~last.threw) =>
        LET s1 == given.elems
            s2 == last.second
            N == IF Len(s1) <= Len(s2) THEN Len(s1) ELSE Len(s2)
        IN /\ Len(last.value) = N
           /\ \A l \in 0..(N - 1) :
                /\ last.value[l + 1] = CorrelationAt(s1, s2, N, l)
                /\ IsExact(last.value[l + 1].re)

C13_Witness ==
    /\ last.op = "crossCorrelation"
    /\ Len(given.elems) = 3
    /\ Len(last.second) = 2
    /\ last.value[1].im # RZero
    /\ last.value[2].re # RZero

RECURSIVE NumberSum(_)
NumberSum(xs) == IF Len(xs) = 0 THEN Number(0, 1) ELSE NumberAdd(Head(xs), NumberSum(Tail(xs)))

\* C14: for every magnitude vector and band count k, computeEnergyBands
\* returns k non-negative entries that together hold every bin's squared
\* magnitude, and the entries over the total energy lie in [0, 1] and sum
\* to 1.
C14_EnergyBands ==
    analysis.op = "computeEnergyBands" =>
        /\ Len(analysis.result.bands) = analysis.param
        /\ \A b \in 1..analysis.param : analysis.result.bands[b] >= 0
        /\ NumberSum(Array([b \in 1..analysis.param |-> Number(analysis.result.bands[b], 1)]))
              = Number(SumSquares(analysis.arg), 1)
        /\ \A b \in 1..analysis.param :
              LET e == analysis.result.distribution[b]
              IN IsFinite(e) /\ 0 <= e.num /\ e.num <= e.den
        /\ NumberSum(analysis.result.distribution) = Number(1, 1)

\* C15: generateAnalysisReport, given an analysis object with the four order
\* maps, the correlations and the features, returns a report with a summary,
\* a patterns section and a recommendations array.
C15_ReportReturns ==
    analysis.op = "generateAnalysisReport" =>
        /\ ~analysis.result.threw
        /\ analysis.result.sections = {"summary", "patterns", "recommendations"}

\* C16: the report's dominant order is the order whose map in the analysis
\* (temporalPatterns, semanticStructures, emergentProperties,
\* hyperstiousSignatures) has the greatest total squared magnitude.
C16_DominantOrder ==
    analysis.op = "generateAnalysisReport" =>
        /\ \E i \in 1..Len(orders) : analysis.result.dominantOrder = orders[i]
        /\ \A i \in 1..Len(orders) :
              calculateTotalEnergy(analysis.arg[OrderMap(analysis.result.dominantOrder)])
                  >= calculateTotalEnergy(analysis.arg[OrderMap(orders[i])])

\* C17: for an all-zero signal the entropy, the spectral centroid and the
\* phase coherence are finite numbers (no NaN, no Infinity), and 0 where the
\* routine's denominator is 0.
C17_ZeroSignalFeatures ==
    (/\ analysis.op = "signalFeatures"
     /\ \A i \in 1..Len(analysis.arg) : analysis.arg[i] = [re |-> 0, im |-> 0])
    => /\ analysis.result.entropy = Number(0, 1)
       /\ analysis.result.spectralCentroid = Number(0, 1)
       /\ IsFinite(analysis.result.phaseCoherence)
       /\ Len(analysis.arg) = 0 => analysis.result.phaseCoherence = Number(0, 1)

C17_Witness ==
    /\ analysis.op = "signalFeatures"
    /\ analysis.arg = <<[re |-> 0, im |-> 0], [re |-> 0, im |-> 0], [re |-> 0, im |-> 0]>>
    /\ analysis.result.phaseCoherence = Number(1, 1)

\* the bins that hold energy
NonZeroBins(magnitudes) == {i \in 0..(Len(magnitudes) - 1) : magnitudes[i + 1] # 0}
\* bin i, 0 outside the vector
BinAt(magnitudes, i) == IF i \in 0..(Len(magnitudes) - 1) THEN magnitudes[i + 1] ELSE 0
\* the vector has its one largest bin at peak and is symmetric about it
SymmetricAbout(magnitudes, peak) ==
    /\ \A i \in 0..(Len(magnitudes) - 1) : i # peak => magnitudes[i + 1] < magnitudes[peak + 1]
    /\ \A d \in 1..Len(magnitudes) :
          BinAt(magnitudes, peak - d) = BinAt(magnitudes, peak + d)

\* C18: calculateSpectralCentroid is sum(i * m[i]^2) / sum(m[i]^2); with
\* non-zero energy it lies between the first and the last non-zero bin; for
\* a vector symmetric about its one peak it is the peak's index.
C18_SpectralCentroid ==
    (analysis.op = "calculateSpectralCentroid" /\ SumSquares(analysis.arg) > 0) =>
        LET m == analysis.arg
            c == analysis.result
            moment == Total(Array([i \in 1..Len(m) |-> (i - 1) * m[i] * m[i]]))
        IN /\ c.kind = "number"
           /\ c.num * SumSquares(m) = c.den * moment
           /\ \A i \in NonZeroBins(m) : (\A j \in NonZeroBins(m) : i <= j) => i * c.den <= c.num
           /\ \A i \in NonZeroBins(m) : (\A j \in NonZeroBins(m) : j <= i) => c.num <= i * c.den
           /\ \A peak \in 0..(Len(m) - 1) : SymmetricAbout(m, peak) => c = Number(peak, 1)

C18_Witness ==
    /\ analysis.op = "calculateSpectralCentroid"
    /\ analysis.arg = <<0, 1, 2, 1>>
    /\ analysis.result = Number(2, 1)

\* ------------------------------------------------------------------ event system calls
\* the world a call starts in: nothing delivered by it yet
Here == World(es, timers, frames, issued, <<>>) @@ [chain |-> chain]
Becomes(w) ==
    /\ es' = w.es
    /\ timers' = w.timers
    /\ frames' = w.frames
    /\ issued' = w.issued
    /\ delivered' = w.delivered
    /\ chain' = w.chain
    /\ asked' = NotAsked

InitEvents ==
    /\ fft = constructor
    /\ signal = Undefined
    /\ given = Undefined
    /\ last = NoCall
    /\ analysis = NoAnalysis
    /\ FreshEventSystem

\* eventSystem.subscribe(eventType, handler, semanticDomains, priority)
CallSubscribe(eventType, semanticDomains, priority) ==
    /\ issued.sub < MaxSubs
    /\ Becomes(subscribe(Here, eventType, Recorder, semanticDomains, priority))
    /\ UNCHANGED <<engineVars, analysisVars>>

\* eventSystem.unsubscribe(eventType, subscriptionId)
CallUnsubscribe(eventType, subscriptionId) ==
    /\ Becomes(unsubscribe(Here, eventType, subscriptionId).world)
    /\ UNCHANGED <<engineVars, analysisVars>>

\* eventSystem.emit(eventType, payload, options)
CallEmit(eventType, options) ==
    /\ issued.evt < MaxEvents
    /\ Becomes(emit(Here, eventType, [message |-> "hello"], options))
    /\ UNCHANGED <<engineVars, analysisVars>>

\* eventSystem.processEventBuffer(), called by hand as the tests do
CallProcessEventBuffer(processingTime) ==
    /\ Becomes(processEventBuffer(Here, processingTime))
    /\ UNCHANGED <<engineVars, analysisVars>>

\* the browser runs a callback handed to requestAnimationFrame
AnimationFrame(processingTime) ==
    /\ frames > 0
    /\ Becomes(processEventBuffer([Here EXCEPT !.frames = @ - 1], processingTime))
    /\ UNCHANGED <<engineVars, analysisVars>>

\* the first timer set by bufferEvent fires
TimerFires ==
    /\ timers # <<>>
    /\ Becomes(timerCallback([Here EXCEPT !.timers = Tail(@)], Head(timers)))
    /\ UNCHANGED <<engineVars, analysisVars>>

NextEvents ==
    \/ \E eventType \in EventTypes, semanticDomains \in DomainLists, priority \in Priorities :
          CallSubscribe(eventType, semanticDomains, priority)
    \/ \E eventType \in EventTypes, subscriptionId \in 1..MaxSubs :
          CallUnsubscribe(eventType, subscriptionId)
    \/ \E eventType \in EventTypes, options \in Options : CallEmit(eventType, options)
    \/ \E processingTime \in ProcessingTimes : CallProcessEventBuffer(processingTime)
    \/ \E processingTime \in ProcessingTimes : AnimationFrame(processingTime)
    \/ TimerFires

SpecEvents == InitEvents /\ [][NextEvents]_vars

\* ---- C19
\* the priorities of a listener list never rise along it, and listeners of
\* one priority stand in the order they subscribed (ids are issued in order)
Sorted(listeners) ==
    \A i, j \in 1..Len(listeners) :
        i < j => \/ listeners[i].priority > listeners[j].priority
                 \/ /\ listeners[i].priority = listeners[j].priority
                    /\ listeners[i].id < listeners[j].id

\* C19: the listener list of every event type is sorted by priority, highest
\* first, with equal priorities in subscription order, after any sequence of
\* subscribe and unsubscribe calls; and every processEventGroup or
\* processEvent call runs the handlers it runs in that order.
C19_PriorityOrder ==
    /\ \A eventType \in DOMAIN es.listeners : Sorted(es.listeners[eventType])
    /\ \A d \in 1..Len(delivered) : Sorted(delivered[d].called)

\* one event given to three listeners of its type: the first two subscribed
\* with one priority, the third with a higher one, which is run first
C19_Witness ==
    \E d \in 1..Len(delivered) :
        LET called == delivered[d].called
        IN /\ Len(called) = 3
           /\ called[1].id = 3
           /\ called[2].id = 1
           /\ called[3].id = 2
           /\ called[1].priority > called[2].priority
           /\ called[2].priority = called[3].priority

\* ---- C20
\* the domains semanticRouting holds for an event type; none without an entry
Routed(eventType) ==
    IF eventType \in DOMAIN initializeSemanticRoutes
    THEN {initializeSemanticRoutes[eventType][i] :
             i \in 1..Len(initializeSemanticRoutes[eventType])}
    ELSE {}
Listed(listener) ==
    {listener.semanticDomains[i] : i \in 1..Len(listener.semanticDomains)}

\* C20: in every dispatch, a listener of the event's type with a non-empty
\* domain list is given the event exactly when the list shares a domain with
\* the domains routed for the type; a listener with an empty list is always
\* given it; an event of a type without a routing entry is given only to
\* listeners with an empty list.
C20_SemanticRouting ==
    \A d \in 1..Len(delivered) :
        LET entry == delivered[d]
            reached(listener) == \E c \in 1..Len(entry.called) : entry.called[c].id = listener.id
        IN \A i \in 1..Len(entry.listeners) :
              LET listener == entry.listeners[i]
              IN /\ Listed(listener) # {} =>
                       (reached(listener) <=> Listed(listener) \cap Routed(entry.type) # {})
                 /\ Listed(listener) = {} => reached(listener)
                 /\ (entry.type \notin DOMAIN initializeSemanticRoutes /\ reached(listener))
                       => Listed(listener) = {}

\* one dispatch of a routed event with a listener that shares a domain, one
\* that shares none and one without domains
C20_Witness ==
    \E d \in 1..Len(delivered) :
        LET entry == delivered[d]
        IN /\ entry.type = "voxel.created"
           /\ Len(entry.listeners) = 3
           /\ Len(entry.called) = 2
           /\ \E i \in 1..3 : entry.listeners[i].semanticDomains = <<"narrative">>
           /\ \E c \in 1..2 : entry.called[c].semanticDomains = <<"physics", "narrative">>
           /\ \E c \in 1..2 : entry.called[c].semanticDomains = <<>>

\* ---- C24
\* C24: transform(x, 2) on a non-empty x of length N returns x in reverse
\* order, output[i] = x[N-1-i], leaves x as it was, and applied to its own
\* result returns x.
C24_TimeReversal ==
    (last.op = "transform" /\ last.alpha = Order(8, 0)
        /\ given.tag = "array" /\ Len(given.elems) > 0) =>
        LET N == Len(given.elems)
            again == transform(Arr(last.value), Order(8, 0))
        IN /\ ~last.threw
           /\ Len(last.value) = N
           /\ \A i \in 0..(N - 1) : last.value[i + 1] = given.elems[(N - 1 - i) + 1]
           /\ signal = given
           /\ ~again.threw
           /\ again.value = given.elems

\* a signal of three samples that is not its own reverse, transformed at order 2
C24_Witness ==
    /\ last.op = "transform"
    /\ last.alpha = Order(8, 0)
    /\ ~last.threw
    /\ Len(given.elems) = 3
    /\ given.elems[1] # given.elems[3]
    /\ last.value[1] = given.elems[3]

\* ---- C25
\* sample n of the linear convolution of s1 and s2: the sum over m in 0..n of
\* s1[m] * s2[n-m], where a * b is (a.re*b.re - a.im*b.im) + i*(a.re*b.im + a.im*b.re)
ConvolutionAt(s1, s2, n) ==
    [re |-> SumOf(Array([m \in 1..(n + 1) |->
                RSub(RMul(s1[m].re, s2[n + 2 - m].re), RMul(s1[m].im, s2[n + 2 - m].im))])),
     im |-> SumOf(Array([m \in 1..(n + 1) |->
                RAdd(RMul(s1[m].re, s2[n + 2 - m].im), RMul(s1[m].im, s2[n + 2 - m].re))]))]

\* C25: fastConvolution(s1, s2) of two signals of one length N >= 1 returns
\* N samples, and sample n is the linear convolution sum over m in 0..n of
\* s1[m] * s2[n-m]: no wrap-around term is in it.
C25_LinearConvolution ==
    (last.op = "fastConvolution" /\ given.tag = "array"
        /\ Len(given.elems) >= 1 /\ Len(given.elems) = Len(last.second)) =>
        LET N == Len(given.elems)
        IN /\ ~last.threw
           /\ Len(last.value) = N
           /\ \A n \in 0..(N - 1) :
                 last.value[n + 1] = ConvolutionAt(given.elems, last.second, n)

\* two signals of two samples whose last samples are not zero, so that the
\* circular convolution of length 2 would add s1[1] * s2[1] to sample 0
C25_Witness ==
    /\ last.op = "fastConvolution"
    /\ ~last.threw
    /\ Len(given.elems) = 2
    /\ Len(last.second) = 2
    /\ given.elems[2] # CZero
    /\ last.second[2] # CZero
    /\ last.value[1] = ConvolutionAt(given.elems, last.second, 0)

\* ---- C26
\* the squared magnitudes of the bins lo..hi (counted from 0)
EnergyBetween(magnitudes, lo, hi) ==
    Total(Array([j \in 1..(hi - lo + 1) |->
                    magnitudes[lo + j] * magnitudes[lo + j]]))

\* C26: for a non-empty vector calculateBandwidth returns a count between 1
\* and N, and it is the length of a contiguous range of bins whose squared
\* magnitudes sum to at least 95% of the total energy.
C26_Bandwidth ==
    (analysis.op = "calculateBandwidth" /\ Len(analysis.arg) > 0) =>
        LET magnitudes == analysis.arg
            N == Len(magnitudes)
            count == analysis.result.num
        IN /\ count \in 1..N
           /\ \E start \in 0..(N - count) :
                 100 * EnergyBetween(magnitudes, start, start + count - 1)
                    >= 95 * EnergyBetween(magnitudes, 0, N - 1)

\* the part of C26 the code keeps: the count is between 1 and N
BandwidthInRange ==
    (analysis.op = "calculateBandwidth" /\ Len(analysis.arg) > 0) =>
        analysis.result.num \in 1..Len(analysis.arg)

\* ---- C27
\* C27: the dominant-frequency list of a transform holds only bins whose
\* magnitude is strictly above half the maximum, each with its own magnitude
\* and no bin twice; it is sorted by non-increasing magnitude and has at most
\* 5 entries; a qualifying bin is left out only when the list is full and
\* holds nothing smaller; it holds a bin of the maximum magnitude when the
\* maximum is positive, and is empty for an all-zero transform.
C27_DominantBins ==
    analysis.op = "dominantBins" =>
        LET spectrum == analysis.arg
            bins == analysis.result
            magnitude(i) == SqrtOf(spectrum[i + 1].re * spectrum[i + 1].re
                                   + spectrum[i + 1].im * spectrum[i + 1].im).num
            all == 0..(Len(spectrum) - 1)
            qualifies(i) == \A j \in all : 2 * magnitude(i) > magnitude(j)
            listed == {bins[b].index : b \in 1..Len(bins)}
        IN /\ \A b \in 1..Len(bins) :
                 /\ bins[b].index \in all
                 /\ bins[b].magnitude = magnitude(bins[b].index)
                 /\ qualifies(bins[b].index)
           /\ Cardinality(listed) = Len(bins)
           /\ \A b \in 1..(Len(bins) - 1) : bins[b].magnitude >= bins[b + 1].magnitude
           /\ Len(bins) <= 5
           /\ \A i \in all : (qualifies(i) /\ i \notin listed) =>
                 /\ Len(bins) = 5
                 /\ \A b \in 1..5 : bins[b].magnitude >= magnitude(i)
           /\ \A i \in all : (magnitude(i) > 0 /\ \A j \in all : magnitude(i) >= magnitude(j))
                 => \E b \in 1..Len(bins) : bins[b].magnitude = magnitude(i)
           /\ (\A i \in all : magnitude(i) = 0) => bins = <<>>

\* six qualifying bins of two magnitudes: the list keeps five, the larger first
C27_Witness ==
    /\ analysis.op = "dominantBins"
    /\ Len(analysis.arg) = 6
    /\ Len(analysis.result) = 5
    /\ analysis.result[1].magnitude = 3
    /\ analysis.result[5].magnitude = 2
    /\ \A i \in 1..6 : analysis.arg[i] # [re |-> 0, im |-> 0]

\* ---- C28
\* C28: detectCausalInversions reports a signal pair exactly when the first
\* index of the largest magnitude of its cross-correlation is more than 2
\* bins before the midpoint floor(length / 2); a reported record has the lag
\* peak index - midpoint, below -2, and a finite strength, the peak
\* magnitude over the largest magnitude.
C28_CausalInversions ==
    (analysis.op = "detectCausalInversions"
        /\ analysis.arg.crossDomainCorrelations.present) =>
        \A e \in 1..Len(analysis.arg.crossDomainCorrelations.entries) :
            LET entry == analysis.arg.crossDomainCorrelations.entries[e]
                correlation == entry[2]
                N == Len(correlation)
                energy(i) == correlation[i + 1].re * correlation[i + 1].re
                             + correlation[i + 1].im * correlation[i + 1].im
                peaks == {i \in 0..(N - 1) : \A j \in 0..(N - 1) : energy(i) >= energy(j)}
                midpoint == N \div 2
                early == \E i \in peaks : (\A j \in peaks : i <= j) /\ i < midpoint - 2
                records == {r \in 1..Len(analysis.result) :
                               analysis.result[r].signalPair = entry[1]}
            IN /\ early <=> records # {}
               /\ \A r \in records :
                     LET record == analysis.result[r]
                     IN /\ record.lag < -2
                        /\ \E i \in peaks : (\A j \in peaks : i <= j)
                                              /\ record.lag = i - midpoint
                        /\ IsFinite(record.strength)
                        /\ record.strength = Number(1, 1)

\* ---- C29
\* C29: parse throws only for an argument without threads, never what the
\* fractional analysis threw; when it returns, fractionalAnalysis,
\* fractionalReport and hyperstitiousPatterns are all null or all non-null
\* (an analysis that had succeeded is discarded when the report or the
\* patterns fail), and threads, totals and temporalFlow are as computed
\* before the analysis step.
C29_ParseAllOrNothing ==
    analysis.op = "parse" =>
        LET outcome == analysis.result
            sessionData == analysis.arg
        IN IF sessionData.tag # "object" \/ ~sessionData.hasThreads
           THEN outcome.threw /\ outcome.error = "Invalid session data: missing threads"
           ELSE /\ ~outcome.threw
                /\ LET tags == {outcome.value.fractionalAnalysis.tag,
                                 outcome.value.fractionalReport.tag,
                                 outcome.value.hyperstitiousPatterns.tag}
                   IN tags = {"null"} \/ tags = {"object"}
                /\ outcome.warned # "" =>
                        outcome.value.fractionalAnalysis.tag = "null"
                /\ \A field \in DOMAIN parsedBeforeAnalysis(sessionData) :
                        outcome.value[field] = parsedBeforeAnalysis(sessionData)[field]
                /\ outcome.value.totalThreads = Len(sessionData.threads)
                /\ outcome.value.temporalFlow = sessionData.temporalFlow

\* parse has returned after the analysis succeeded and the report failed
C29_Witness ==
    /\ analysis.op = "parse"
    /\ ~analysis.result.threw
    /\ analysis.result.analysed
    /\ analysis.result.warned # ""
    /\ analysis.result.value.fractionalAnalysis.tag = "null"
    /\ Len(analysis.result.value.threads) = MaxThreads

\* ------------------------------------------------------------------ the event history
\* emits, passes and the two queries on one event system
MaxHistory == 1002
MaxBuffered == 1

\* eventSystem.emit("voxel.created", payload, options); the first MaxBuffered
\* events may be buffered, every one may be immediate
EmitForHistory(options) ==
    /\ issued.evt < MaxHistory
    /\ options.immediate \/ issued.evt < MaxBuffered
    /\ Becomes(emit(Here, "voxel.created", [message |-> "hello"], options))
    /\ UNCHANGED <<engineVars, analysisVars>>

\* eventSystem.getMetrics()
CallGetMetrics ==
    /\ asked' = [op |-> "getMetrics"] @@ getMetrics(Here)
    /\ UNCHANGED <<es, timers, frames, issued, delivered, chain>>
    /\ UNCHANGED <<engineVars, analysisVars>>

\* eventSystem.eventHistory.getAll(), as queryEvents calls it
CallGetAll ==
    /\ asked' = [op |-> "getAll"] @@ Return(getAll(es.eventHistory))
    /\ UNCHANGED <<es, timers, frames, issued, delivered, chain>>
    /\ UNCHANGED <<engineVars, analysisVars>>

NextHistory ==
    \/ \E options \in {DefaultOptions, [DefaultOptions EXCEPT !.immediate = TRUE]} :
            EmitForHistory(options)
    \/ AnimationFrame(Number(0, 1))
    \/ CallGetMetrics
    \/ CallGetAll

SpecHistory == InitEvents /\ [][NextHistory]_vars

\* ---- C23
\* C23: after any sequence of emit and processEventBuffer calls getMetrics
\* returns, it does not throw, and its snapshot holds the events processed,
\* the length of the buffer and the number of events in the history.
C23_GetMetrics ==
    asked.op = "getMetrics" =>
        /\ ~asked.threw
        /\ asked.value.eventsProcessed = es.metrics.eventsProcessed
        /\ asked.value.bufferSize = Len(es.eventBuffer)
        /\ asked.value.eventHistorySize = es.eventHistory.count

\* ---- C30
\* the events from..to in emission order
IdsFrom(events, from, to) ==
    /\ Len(events) = to - from + 1
    /\ \A i \in 1..Len(events) : events[i].id = from + i - 1

\* C30: after n emits, buffered or immediate, the history holds the last
\* min(n, 1000) events, its count is that number and never above the
\* capacity, its write index is within 0..capacity-1, and getAll returns
\* those events oldest first.
C30_HistoryRing ==
    LET ring == es.eventHistory
        n == issued.evt
        held == IF n < 1000 THEN n ELSE 1000
    IN /\ ring.size = 1000
       /\ ring.count = held
       /\ ring.count <= ring.size
       /\ ring.head \in 0..(ring.size - 1)
       /\ IdsFrom(getAll(ring), n - held + 1, n)
       /\ asked.op = "getAll" => /\ ~asked.threw
                                 /\ IdsFrom(asked.value, n - held + 1, n)

\* getAll has returned the history after it wrapped
C30_Witness ==
    /\ asked.op = "getAll"
    /\ issued.evt > 1000
    /\ Len(asked.value) = 1000
    /\ es.metrics.eventsProcessed > 0

\* ------------------------------------------------------------------ event chains
\* one chain, recording listeners on the types it waits for, and the events
\* that complete its steps
MaxChainSubs == 3
MaxChainEvents == 3

\* the event types the steps wait for, and the triggers they emit
WaitTypes == {"chain.step1.complete", "chain.step2.complete"}
Step(trigger, waitFor) == [emit |-> trigger, waitFor |-> waitFor]
\* chains of two steps: with triggers as the test writes them, without
\* triggers, and both steps waiting for one event type
ChainSpecs ==
    {[steps |-> <<Step("chain.step1", "chain.step1.complete"),
                  Step("chain.step2", "chain.step2.complete")>>],
     [steps |-> <<Step("none", "chain.step1.complete"),
                  Step("none", "chain.step2.complete")>>],
     [steps |-> <<Step("none", "chain.step1.complete"),
                  Step("none", "chain.step1.complete")>>]}

\* eventSystem.createEventChain(chainSpec)
CallCreateEventChain(chainSpec) ==
    /\ ~chain.created
    /\ Becomes(createEventChain(Here, chainSpec))
    /\ UNCHANGED <<engineVars, analysisVars>>

\* eventSystem.subscribe(eventType, handler), the handler a recorder
SubscribeRecorder(eventType) ==
    /\ issued.sub < MaxChainSubs
    /\ Becomes(subscribe(Here, eventType, Recorder, <<>>, 0))
    /\ UNCHANGED <<engineVars, analysisVars>>

\* eventSystem.emit(eventType, { result: ... }, options)
EmitCompletion(eventType, options) ==
    /\ issued.evt < MaxChainEvents
    /\ Becomes(emit(Here, eventType, [result |-> 100], options))
    /\ UNCHANGED <<engineVars, analysisVars>>

NextChains ==
    \/ \E chainSpec \in ChainSpecs : CallCreateEventChain(chainSpec)
    \/ \E eventType \in WaitTypes : SubscribeRecorder(eventType)
    \/ \E eventType \in WaitTypes,
          options \in {DefaultOptions, [DefaultOptions EXCEPT !.immediate = TRUE]} :
            EmitCompletion(eventType, options)
    \/ CallProcessEventBuffer(Number(0, 1))
    \/ AnimationFrame(Number(0, 1))

SpecChains == InitEvents /\ [][NextChains]_vars

\* ---- C21
\* the listeners of all types
AllListeners ==
    UNION {{es.listeners[eventType][i] : i \in 1..Len(es.listeners[eventType])} :
              eventType \in DOMAIN es.listeners}
\* the events ever emitted (fewer than the history holds)
Emitted == {es.eventHistory.buffer[i] : i \in DOMAIN es.eventHistory.buffer}

\* C21: the steps of a chain run in order: the only chain listener
\* subscribed is that of the current step, and only the triggers of the steps
\* up to the current one have been emitted; every event delivered to the
\* chain advances it by one step, no event advances it twice; a dispatch
\* runs every other listener its list held and that takes the event;
\* onComplete is called once, when the last step is done, with the context of
\* all steps in order.
C21_ChainOrder ==
    chain.created =>
        LET steps == chain.steps
            context == chain.context
        IN /\ chain.currentStep \in 0..Len(steps)
           /\ \A listener \in AllListeners :
                 listener.handler.kind = "chainStep" =>
                    listener.handler.step = chain.currentStep
           /\ \A event \in Emitted :
                 "stepIndex" \in DOMAIN event.payload =>
                    event.payload.stepIndex <= chain.currentStep
           /\ Len(context) = chain.currentStep
           /\ \A k \in 1..Len(context) : context[k].step = k - 1
           /\ \A k, l \in 1..Len(context) :
                 k # l => \A i \in 1..Len(context[k].events) :
                            \A j \in 1..Len(context[l].events) :
                                context[k].events[i] # context[l].events[j]
           /\ \A d \in 1..Len(delivered) :
                 \A i \in 1..Len(delivered[d].listeners) :
                    LET listener == delivered[d].listeners[i]
                    IN (listener.handler.kind = "record"
                        /\ shouldProcessForListener(delivered[d].events[1], listener))
                       => \E c \in 1..Len(delivered[d].called) :
                            delivered[d].called[c].id = listener.id
           /\ Len(chain.completed) <= 1
           /\ (chain.completed # <<>>) <=> (chain.currentStep = Len(steps))
           /\ chain.completed # <<>> => chain.completed[1] = context

\* ---- C22
\* the events of a sequence
Events(buffer) == {buffer[i] : i \in 1..Len(buffer)}
\* the dispatches of the step that hold the event
DispatchesOf(handled, event) ==
    {d \in 1..Len(handled) :
        \E i \in 1..Len(handled[d].events) : handled[d].events[i].id = event.id}

\* C22: an event emitted without immediate, critical or delay is in the
\* buffer after the emit and a pass is due while the buffer holds events; an
\* event leaves the buffer only in a step that hands it, alone or in the
\* batch of its type, once to every listener of its type that takes it; an
\* event put in the buffer during a step is not handed out by that step.
C22_BufferedOnce ==
    [][ /\ \A event \in Events(es.eventBuffer) \ Events(es.eventBuffer') :
            LET dispatches == DispatchesOf(delivered', event)
            IN /\ Cardinality(dispatches) = 1
               /\ \A d \in dispatches :
                     /\ delivered'[d].argument =
                            (IF Len(delivered'[d].events) = 1 THEN event
                             ELSE delivered'[d].events)
                     /\ \A i \in 1..Len(delivered'[d].listeners) :
                           LET listener == delivered'[d].listeners[i]
                           IN shouldProcessForListener(event, listener) =>
                                Cardinality({c \in 1..Len(delivered'[d].called) :
                                    delivered'[d].called[c].id = listener.id}) = 1
        /\ \A event \in Events(es.eventBuffer') \ Events(es.eventBuffer) :
            DispatchesOf(delivered', event) = {}
        /\ Len(es.eventBuffer') > 0 => frames' > 0
      ]_vars

====
